---- MODULE Spec2Model ----
(***************************************************************************)
(* NetImpact: the schema-driven diff-and-dependency analysis engine.       *)
(*                                                                         *)
(*   src/src/diff/generic_diff_engine.py       GenericDiffEngine           *)
(*   src/src/analysis/schema_analyzer/true_schema_analyzer.py              *)
(*                                             TrueSchemaDrivenAnalyzer    *)
(*   src/src/cli/main.py                       analyze and its helpers     *)
(*                                                                         *)
(* Python strings are TLA+ strings, taken apart with Len, SubSeq and \o.   *)
(* A configuration value is a record [t, v, keys, items]:                  *)
(*   t = "str" / "int"  a scalar; v holds its text (for an int, its        *)
(*                      decimal digits, so that str() keeps v and drops t) *)
(*   t = "dict"         keys in insertion order, items the values          *)
(*   t = "list"         items the elements                                 *)
(*   t = "none"         Python's None                                      *)
(***************************************************************************)
EXTENDS Integers, Sequences, FiniteSets, TLC

VARIABLES
    pc,                 \* position of the run
    current_config,     \* the current configuration tree
    proposed_config,    \* the proposed configuration tree
    changes,            \* the ConfigChange records compare_configs returned
    config_path,        \* the path an identifier is extracted from
    actual_identifier,  \* what _extract_object_identifier returned
    cli_identifier,     \* what _extract_identifier_from_path returned
    initialized,        \* TrueSchemaDrivenAnalyzer.initialized
    true_leafrefs,      \* TrueSchemaDrivenAnalyzer.true_leafrefs
    schema_changes,     \* the ConfigurationChange records the analyzer works on
    true_dependencies,  \* what find_schema_driven_dependencies returned
    schema_result,      \* analyze: what analyze_configuration_file returned
    dependencies,       \* analyze: the Dependency records
    impact_analysis,    \* analyze: what _analyze_per_object_impact returned
    target_obj,         \* what _get_object_at_path returned
    obj_identifiers,    \* what _extract_identifiers_from_object returned
    _reference_cache,   \* DynamicDependencyAnalyzer._reference_cache
    build_calls,        \* the _build_reference_map call of each thread
    traversals,         \* how often each data model's schema was traversed
    schema_root         \* the root node of the schema a build starts from

diff_vars == <<current_config, proposed_config, changes>>
ident_vars == <<config_path, actual_identifier, cli_identifier>>
analyzer_vars == <<initialized, true_leafrefs, schema_changes, true_dependencies>>
cli_vars == <<schema_result, dependencies, impact_analysis>>
resolve_vars == <<target_obj, obj_identifiers>>
cache_vars == <<_reference_cache, build_calls, traversals, schema_root>>
vars == <<pc, diff_vars, ident_vars, analyzer_vars, cli_vars, resolve_vars, cache_vars>>

---------------------------------------------------------------------------
(* Python strings *)

RECURSIVE FindFrom(_, _, _)
FindFrom(s, c, i) ==
    IF i > Len(s) THEN -1
    ELSE IF SubSeq(s, i, i) = c THEN i - 1
    ELSE FindFrom(s, c, i + 1)

\* s.find(c) for a one-character c: the 0-based place of its first
\* occurrence, or -1
Find(s, c) == FindFrom(s, c, 1)

\* sub in s
Contains(s, sub) ==
    \E i \in 1..(Len(s) - Len(sub) + 1) : SubSeq(s, i, i + Len(sub) - 1) = sub

\* s[start:end], 0-based and end-exclusive
Slice(s, start, end) == SubSeq(s, start + 1, end)

RECURSIVE Split(_, _)
\* s.split(sep) for a one-character sep
Split(s, sep) ==
    LET k == Find(s, sep)
    IN  IF k = -1 THEN <<s>>
        ELSE <<Slice(s, 0, k)>> \o Split(Slice(s, k + 1, Len(s)), sep)

Digits == {"0", "1", "2", "3", "4", "5", "6", "7", "8", "9"}

\* s.isdigit()
IsDigit(s) == Len(s) > 0 /\ \A i \in 1..Len(s) : SubSeq(s, i, i) \in Digits

UpperCase == "ABCDEFGHIJKLMNOPQRSTUVWXYZ"
LowerCase == "abcdefghijklmnopqrstuvwxyz"

LowerOf ==
    [c \in {SubSeq(UpperCase, i, i) : i \in 1..Len(UpperCase)} |->
        SubSeq(LowerCase, Find(UpperCase, c) + 1, Find(UpperCase, c) + 1)]

LowerChar(c) == IF c \in DOMAIN LowerOf THEN LowerOf[c] ELSE c

RECURSIVE Lower(_)
\* s.lower()
Lower(s) == IF s = "" THEN "" ELSE LowerChar(SubSeq(s, 1, 1)) \o Lower(SubSeq(s, 2, Len(s)))

RECURSIVE Replace(_, _, _)
\* s.replace(old, new), old not empty
Replace(s, old, new) ==
    IF Len(s) < Len(old) THEN s
    ELSE IF SubSeq(s, 1, Len(old)) = old
    THEN new \o Replace(SubSeq(s, Len(old) + 1, Len(s)), old, new)
    ELSE SubSeq(s, 1, 1) \o Replace(SubSeq(s, 2, Len(s)), old, new)

RECURSIVE Join(_, _)
\* sep.join(parts)
Join(parts, sep) ==
    IF Len(parts) = 0 THEN ""
    ELSE IF Len(parts) = 1 THEN parts[1]
    ELSE parts[1] \o sep \o Join(Tail(parts), sep)

RECURSIVE StripLeft(_, _)
StripLeft(s, chars) ==
    IF s # "" /\ Find(chars, SubSeq(s, 1, 1)) # -1
    THEN StripLeft(SubSeq(s, 2, Len(s)), chars) ELSE s

RECURSIVE StripRight(_, _)
StripRight(s, chars) ==
    IF s # "" /\ Find(chars, SubSeq(s, Len(s), Len(s))) # -1
    THEN StripRight(SubSeq(s, 1, Len(s) - 1), chars) ELSE s

\* s.strip(chars)
Strip(s, chars) == StripRight(StripLeft(s, chars), chars)

UpperOf ==
    [c \in {SubSeq(LowerCase, i, i) : i \in 1..Len(LowerCase)} |->
        SubSeq(UpperCase, Find(LowerCase, c) + 1, Find(LowerCase, c) + 1)]

UpperChar(c) == IF c \in DOMAIN UpperOf THEN UpperOf[c] ELSE c

IsCased(c) == c \in DOMAIN UpperOf \/ c \in DOMAIN LowerOf

RECURSIVE TitleFrom(_, _)
\* the rest of s.title(): a letter that follows a letter is lower-cased, any
\* other letter upper-cased
TitleFrom(s, after_cased) ==
    IF s = "" THEN ""
    ELSE LET c == SubSeq(s, 1, 1)
         IN  (IF after_cased THEN LowerChar(c) ELSE UpperChar(c))
             \o TitleFrom(SubSeq(s, 2, Len(s)), IsCased(c))

\* s.title()
Title(s) == TitleFrom(s, FALSE)

\* the ASCII characters of paths and names, in code-point order
Ascii ==
    " !#$%&'()*+,-./0123456789:;<=>?@" \o UpperCase \o "[]^_" \o LowerCase \o "{|}~"

\* ord(c), up to a constant
Ord(c) == Find(Ascii, c)

RECURSIVE StrLess(_, _)
\* a < b on str
StrLess(a, b) ==
    IF b = "" THEN FALSE
    ELSE IF a = "" THEN TRUE
    ELSE IF SubSeq(a, 1, 1) = SubSeq(b, 1, 1)
    THEN StrLess(SubSeq(a, 2, Len(a)), SubSeq(b, 2, Len(b)))
    ELSE Ord(SubSeq(a, 1, 1)) < Ord(SubSeq(b, 1, 1))

---------------------------------------------------------------------------
(* Python values *)

StrV(s) == [t |-> "str", v |-> s, keys |-> <<>>, items |-> <<>>]
IntV(s) == [t |-> "int", v |-> s, keys |-> <<>>, items |-> <<>>]
DictV(ks, vs) == [t |-> "dict", v |-> "", keys |-> ks, items |-> vs]
ListV(xs) == [t |-> "list", v |-> "", keys |-> <<>>, items |-> xs]
NoneV == [t |-> "none", v |-> "", keys |-> <<>>, items |-> <<>>]

isinstance_dict(x) == x.t = "dict"
isinstance_list(x) == x.t = "list"

\* key in d
HasKey(d, k) == \E i \in 1..Len(d.keys) : d.keys[i] = k

\* d[key]
Get(d, k) == d.items[CHOOSE i \in 1..Len(d.keys) : d.keys[i] = k]

\* d[key] = value: a present key keeps its place, a new key goes last
DictSet(d, k, x) ==
    IF HasKey(d, k)
    THEN DictV(d.keys, [i \in 1..Len(d.keys) |-> IF d.keys[i] = k THEN x ELSE d.items[i]])
    ELSE DictV(Append(d.keys, k), Append(d.items, x))

\* str(x) of a scalar
PyStr(x) == x.v

RECURSIVE PyEq(_, _)
\* a == b: scalars by type and value, lists element by element, dicts by key
\* set and values whatever the insertion order
PyEq(a, b) ==
    IF a.t # b.t THEN FALSE
    ELSE IF a.t = "dict"
    THEN /\ Len(a.keys) = Len(b.keys)
         /\ \A i \in 1..Len(a.keys) :
                HasKey(b, a.keys[i]) /\ PyEq(a.items[i], Get(b, a.keys[i]))
    ELSE IF a.t = "list"
    THEN /\ Len(a.items) = Len(b.items)
         /\ \A i \in 1..Len(a.items) : PyEq(a.items[i], b.items[i])
    ELSE a.v = b.v

\* bool(x): None, 0, "", {} and [] are false
Truthy(x) ==
    IF x.t = "none" THEN FALSE
    ELSE IF x.t = "dict" THEN Len(x.keys) > 0
    ELSE IF x.t = "list" THEN Len(x.items) > 0
    ELSE IF x.t = "int" THEN x.v # "0"
    ELSE x.v # ""

\* d.get(key, default)
GetOr(d, k, default) == IF HasKey(d, k) THEN Get(d, k) ELSE default

---------------------------------------------------------------------------
(* GenericDiffEngine *)

ConfigChange(p, ct, old, new) ==
    [path |-> p, change_type |-> ct, old_value |-> old, new_value |-> new]

metadata_sections == {"device"}

key_candidates == <<"name", "id", "vlan-id", "sequence-id", "interface-id">>

RECURSIVE first_candidate(_, _)
first_candidate(item, i) ==
    IF i > Len(key_candidates) THEN ""
    ELSE IF HasKey(item, key_candidates[i]) THEN key_candidates[i]
    ELSE first_candidate(item, i + 1)

\* index is the 0-based position, written in decimal
_get_list_item_key(item, index) ==
    IF isinstance_dict(item) /\ first_candidate(item, 1) # ""
    THEN PyStr(Get(item, first_candidate(item, 1)))
    ELSE ToString(index)

\* mutant: any() for all(): one scalar element makes the list a simple list
is_simple_list_mut_any(proposed_list) ==
    \E i \in 1..Len(proposed_list.items) :
        ~(isinstance_dict(proposed_list.items[i]) \/ isinstance_list(proposed_list.items[i]))

\* line 138: no element of the proposed list is a dict or a list
is_simple_list(proposed_list) ==
    \A i \in 1..Len(proposed_list.items) :
        ~(isinstance_dict(proposed_list.items[i]) \/ isinstance_list(proposed_list.items[i]))

RECURSIVE items_by_key(_, _)
\* {self._get_list_item_key(item, i): item for i, item in enumerate(lst)},
\* built from the first n elements: a repeated key keeps the place of its
\* first element and the value of its last
items_by_key(lst, n) ==
    IF n = 0 THEN DictV(<<>>, <<>>)
    ELSE DictSet(items_by_key(lst, n - 1),
                 _get_list_item_key(lst.items[n], n - 1), lst.items[n])

\* mutant: the current side keyed by position only
current_items_mut_positional(current_list) ==
    DictV([i \in 1..Len(current_list.items) |-> ToString(i - 1)], current_list.items)

current_items(current_list) == items_by_key(current_list, Len(current_list.items))

\* mutant: every proposed element visited under its key, repeated or not
proposed_items_mut_every(proposed_list) ==
    DictV([i \in 1..Len(proposed_list.items) |->
              _get_list_item_key(proposed_list.items[i], i - 1)],
          proposed_list.items)

proposed_items(proposed_list) == items_by_key(proposed_list, Len(proposed_list.items))

\* mutant: the inequality test of line 117 dropped
direct_value_comparison_mut_always(current_section, proposed_section, path) ==
    <<ConfigChange(path, "modified", current_section, proposed_section)>>

\* mutant: values of different types are passed over instead of reported
direct_value_comparison_mut_same_type(current_section, proposed_section, path) ==
    IF current_section.t = proposed_section.t /\ ~PyEq(current_section, proposed_section)
    THEN <<ConfigChange(path, "modified", current_section, proposed_section)>>
    ELSE <<>>

\* lines 117-125: the direct value comparison of two sections
direct_value_comparison(current_section, proposed_section, path) ==
    IF ~PyEq(current_section, proposed_section)
    THEN <<ConfigChange(path, "modified", current_section, proposed_section)>>
    ELSE <<>>

\* lines 138-147: a proposed list of scalars is compared as a whole
simple_list_comparison(current_list, proposed_list, path) ==
    IF ~PyEq(current_list, proposed_list)
    THEN <<ConfigChange(path, "modified", current_list, proposed_list)>>
    ELSE <<>>

\* mutant: the keys of an added mapping reported as well
added_change_mut_descend(path, proposed_value) ==
    <<ConfigChange(path, "added", NoneV, proposed_value)>>
    \o (IF isinstance_dict(proposed_value)
        THEN [i \in 1..Len(proposed_value.keys) |->
                 ConfigChange(path \o "/" \o proposed_value.keys[i], "added",
                              NoneV, proposed_value.items[i])]
        ELSE <<>>)

\* lines 88-95 and 156-162: a key or list item the current side lacks
added_change(path, proposed_value) ==
    <<ConfigChange(path, "added", NoneV, proposed_value)>>

RECURSIVE _compare_config_section(_, _, _)
RECURSIVE compare_dict_keys(_, _, _, _)
RECURSIVE compare_list_items(_, _, _, _)
RECURSIVE _compare_lists(_, _, _)

\* lines 85-111: the loop over proposed_section.items(), from the i-th key on
compare_dict_keys(current_section, proposed_section, path, i) ==
    IF i > Len(proposed_section.keys) THEN <<>>
    ELSE LET key == proposed_section.keys[i]
             proposed_value == proposed_section.items[i]
             key_path == path \o "/" \o key
         IN  (IF ~HasKey(current_section, key)
              THEN added_change(key_path, proposed_value)
              ELSE IF ~PyEq(Get(current_section, key), proposed_value)
              THEN IF isinstance_dict(proposed_value) \/ isinstance_list(proposed_value)
                   THEN _compare_config_section(Get(current_section, key),
                                                proposed_value, key_path)
                   ELSE <<ConfigChange(key_path, "modified",
                                       Get(current_section, key), proposed_value)>>
              ELSE <<>>)
             \o compare_dict_keys(current_section, proposed_section, path, i + 1)

\* lines 153-167: the loop over proposed_items.items(), from the i-th key on
compare_list_items(cur_items, prop_items, path, i) ==
    IF i > Len(prop_items.keys) THEN <<>>
    ELSE LET key == prop_items.keys[i]
             proposed_item == prop_items.items[i]
             item_path == path \o "[" \o key \o "]"
         IN  (IF ~HasKey(cur_items, key)
              THEN added_change(item_path, proposed_item)
              ELSE IF ~PyEq(Get(cur_items, key), proposed_item)
              THEN _compare_config_section(Get(cur_items, key), proposed_item, item_path)
              ELSE <<>>)
             \o compare_list_items(cur_items, prop_items, path, i + 1)

\* mutant: the elements only the current list holds reported as deleted
_compare_lists_mut_deleted(current_list, proposed_list, path) ==
    IF is_simple_list(proposed_list)
    THEN simple_list_comparison(current_list, proposed_list, path)
    ELSE compare_list_items(current_items(current_list),
                            proposed_items(proposed_list), path, 1)
         \o LET gone == SelectSeq(current_items(current_list).keys,
                            LAMBDA k : ~HasKey(proposed_items(proposed_list), k))
            IN  [i \in 1..Len(gone) |->
                    ConfigChange(path \o "[" \o gone[i] \o "]", "deleted",
                                 Get(current_items(current_list), gone[i]), NoneV)]

_compare_lists(current_list, proposed_list, path) ==
    IF is_simple_list(proposed_list)
    THEN simple_list_comparison(current_list, proposed_list, path)
    ELSE compare_list_items(current_items(current_list),
                            proposed_items(proposed_list), path, 1)

_compare_config_section(current_section, proposed_section, path) ==
    IF isinstance_dict(proposed_section) /\ isinstance_dict(current_section)
    THEN compare_dict_keys(current_section, proposed_section, path, 1)
    ELSE IF isinstance_list(proposed_section) /\ isinstance_list(current_section)
    THEN _compare_lists(current_section, proposed_section, path)
    ELSE direct_value_comparison(current_section, proposed_section, path)

\* lines 49-53: the top-level keys compare_configs looks at, in order
analysed_keys(current, proposed) ==
    SelectSeq(proposed.keys, LAMBDA k : k \notin metadata_sections)

RECURSIVE compare_top_level(_, _, _, _)
\* lines 49-70: the loop over the analysed top-level keys, from the i-th on
compare_top_level(current, proposed, ks, i) ==
    IF i > Len(ks) THEN <<>>
    ELSE LET top_level_key == ks[i]
         IN  (IF HasKey(current, top_level_key)
              THEN _compare_config_section(Get(current, top_level_key),
                                           Get(proposed, top_level_key), top_level_key)
              ELSE added_change(top_level_key, Get(proposed, top_level_key)))
             \o compare_top_level(current, proposed, ks, i + 1)

\* mutant: full-replacement mode, sections only in current reported as deleted
compare_configs_mut_replace(current, proposed) ==
    compare_top_level(current, proposed, analysed_keys(current, proposed), 1)
    \o [i \in 1..Len(SelectSeq(current.keys, LAMBDA k : ~HasKey(proposed, k))) |->
          LET k == SelectSeq(current.keys, LAMBDA kk : ~HasKey(proposed, kk))[i]
          IN  ConfigChange(k, "deleted", Get(current, k), NoneV)]

compare_configs(current, proposed) ==
    compare_top_level(current, proposed, analysed_keys(current, proposed), 1)

---------------------------------------------------------------------------
(* Identifiers from paths *)

\* '[' in part and ']' in part, with start < end
has_bracketed(part) ==
    /\ Find(part, "[") # -1
    /\ Find(part, "]") # -1
    /\ Find(part, "[") + 1 < Find(part, "]")

\* part[start:end]
bracketed(part) == Slice(part, Find(part, "[") + 1, Find(part, "]"))

RECURSIVE first_named_bracket(_, _)
\* true_schema_analyzer.py lines 235-243: the first bracketed identifier that
\* is not all digits, "" when there is none
first_named_bracket(parts, i) ==
    IF i > Len(parts) THEN ""
    ELSE IF has_bracketed(parts[i]) /\ ~IsDigit(bracketed(parts[i]))
    THEN bracketed(parts[i])
    ELSE first_named_bracket(parts, i + 1)

\* part.split(':')[-1] if ':' in part else part
clean_part(part) == LET q == Split(part, ":") IN q[Len(q)]

\* lines 245-249: the parts that are not empty, config or state
meaningful_parts(parts) ==
    SelectSeq([i \in 1..Len(parts) |-> clean_part(parts[i])],
              LAMBDA c : c # "" /\ c \notin {"config", "state"})

\* TrueSchemaDrivenAnalyzer._extract_object_identifier
_extract_object_identifier(path) ==
    LET parts == Split(path, "/")
        identifier == first_named_bracket(parts, 1)
        meaningful == meaningful_parts(parts)
    IN  IF identifier # "" THEN identifier
        ELSE IF Len(meaningful) > 0 THEN meaningful[Len(meaningful)]
        ELSE "Unknown"

RECURSIVE first_bracket(_, _)
\* cli/main.py lines 986-995: the first bracketed identifier, digits or not,
\* "" when there is none
first_bracket(parts, i) ==
    IF i > Len(parts) THEN ""
    ELSE IF has_bracketed(parts[i]) THEN bracketed(parts[i])
    ELSE first_bracket(parts, i + 1)

\* cli/main.py _extract_identifier_from_path
_extract_identifier_from_path(path) == first_bracket(Split(path, "/"), 1)

\* cli/main.py _extract_config_object_identifier; None is written ""
_extract_config_object_identifier(path) == first_bracket(Split(path, "/"), 1)

---------------------------------------------------------------------------
(* TrueSchemaDrivenAnalyzer: matching changes against leafrefs *)

Leafref(src, tgt, descr) == [source_path |-> src, target_path |-> tgt, description |-> descr]

TrueSchemaDependency(cp, src, tgt, descr, dt, ident) ==
    [config_change_path |-> cp,
     affected_leafref_source |-> src,
     affected_leafref_target |-> tgt,
     leafref_description |-> descr,
     dependency_type |-> dt,
     actual_object_identifier |-> ident,
     confidence |-> "schema_verified"]

ConfigurationChange(p, ct, old, new) ==
    [path |-> p, change_type |-> ct, old_value |-> old, new_value |-> new]

\* [p.lower() for p in path.split('/') if p]
lower_parts(path) == SelectSeq(Split(Lower(path), "/"), LAMBDA q : q # "")

\* lines 201-209: the parts of the lower-cased target path, the ietf prefixes
\* taken out, without the empty ones, interfaces-state and interface
target_parts(target_path) ==
    LET parts == Split(Lower(target_path), "/")
    IN  SelectSeq([i \in 1..Len(parts) |->
                      Replace(Replace(parts[i], "ietf-interfaces:", ""), "ietf-", "")],
                  LAMBDA c : c # "" /\ c \notin {"", "interfaces-state", "interface"})

interface_keywords == {"interface", "interfaces", "if", "int", "name"}

SeqSet(q) == {q[i] : i \in 1..Len(q)}

\* mutant: the interface keywords not looked at
_schema_path_matches_mut_tokens(path, leafref) ==
    \/ SeqSet(lower_parts(path)) \cap SeqSet(lower_parts(leafref.source_path)) # {}
    \/ SeqSet(lower_parts(path)) \cap SeqSet(target_parts(leafref.target_path)) # {}

\* TrueSchemaDrivenAnalyzer._schema_path_matches
_schema_path_matches(path, leafref) ==
    LET config_parts == SeqSet(lower_parts(path))
        source_parts == SeqSet(lower_parts(leafref.source_path))
        tgt_parts == SeqSet(target_parts(leafref.target_path))
        config_has_interface == interface_keywords \cap config_parts # {}
        leafref_is_interface == interface_keywords \cap (source_parts \cup tgt_parts) # {}
        source_match == config_parts \cap source_parts # {}
        target_match == config_parts \cap tgt_parts # {}
    IN  (config_has_interface /\ leafref_is_interface) \/ source_match \/ target_match

\* lines 172-179: the dependency of a change on a leafref it matches
dependency_of(change, leafref) ==
    TrueSchemaDependency(change.path, leafref.source_path, leafref.target_path,
                         leafref.description, "direct_leafref",
                         _extract_object_identifier(change.path))

\* mutant: the inner loop left at the first leafref that matches
matches_for_change_mut_break(change, leafrefs) ==
    IF \E j \in 1..Len(leafrefs) : _schema_path_matches(change.path, leafrefs[j])
    THEN <<dependency_of(change,
              leafrefs[CHOOSE j \in 1..Len(leafrefs) :
                          /\ _schema_path_matches(change.path, leafrefs[j])
                          /\ \A k \in 1..(j - 1) :
                                 ~_schema_path_matches(change.path, leafrefs[k])])>>
    ELSE <<>>

RECURSIVE matches_from(_, _, _)
matches_from(change, leafrefs, j) ==
    IF j > Len(leafrefs) THEN <<>>
    ELSE (IF _schema_path_matches(change.path, leafrefs[j])
          THEN <<dependency_of(change, leafrefs[j])>> ELSE <<>>)
         \o matches_from(change, leafrefs, j + 1)

\* lines 166-181: the inner loop over self.true_leafrefs for one change
matches_for_change(change, leafrefs) == matches_from(change, leafrefs, 1)

RECURSIVE dependencies_from(_, _, _)
\* lines 165-181: the outer loop over changes, from the i-th on
dependencies_from(chs, leafrefs, i) ==
    IF i > Len(chs) THEN <<>>
    ELSE matches_for_change(chs[i], leafrefs) \o dependencies_from(chs, leafrefs, i + 1)

\* TrueSchemaDrivenAnalyzer.find_schema_driven_dependencies
find_schema_driven_dependencies(is_initialized, leafrefs, chs) ==
    IF ~is_initialized THEN <<>>
    ELSE dependencies_from(chs, leafrefs, 1)

\* mutant: a scalar the current side lacks reported as modified
analyzer_change_type_mut_modified(current_value) == "modified"

\* line 131: "modified" if current_value is not None else "added"
analyzer_change_type(current_value) ==
    IF current_value # NoneV THEN "modified" ELSE "added"

RECURSIVE analyzer_compare_configs(_, _, _, _)
\* analyze_configuration_changes' inner compare_configs over a proposed dict,
\* from its i-th key on: dicts are descended, every other value, a list
\* included, is compared whole
analyzer_compare_configs(current, proposed, path, i) ==
    IF i > Len(proposed.keys) THEN <<>>
    ELSE LET key == proposed.keys[i]
             proposed_value == proposed.items[i]
             current_value == IF isinstance_dict(current)
                              THEN GetOr(current, key, NoneV) ELSE NoneV
             new_path == IF path # "" THEN path \o "/" \o key ELSE key
             here ==
                IF isinstance_dict(proposed_value)
                THEN IF isinstance_dict(current_value)
                     THEN analyzer_compare_configs(current_value, proposed_value, new_path, 1)
                     ELSE <<ConfigurationChange(new_path, "added", NoneV, proposed_value)>>
                ELSE IF ~PyEq(current_value, proposed_value)
                THEN <<ConfigurationChange(
                          new_path,
                          analyzer_change_type(current_value),
                          current_value, proposed_value)>>
                ELSE <<>>
         IN  here \o analyzer_compare_configs(current, proposed, path, i + 1)

\* TrueSchemaDrivenAnalyzer.analyze_configuration_changes
analyze_configuration_changes(current, proposed) ==
    IF isinstance_dict(proposed)
    THEN analyzer_compare_configs(current, proposed, "", 1)
    ELSE <<>>

---------------------------------------------------------------------------
(* cli/main.py: the helpers of analyze *)

\* None is written "" where a field holds a str or None
Dependency(sp, tp, dt, sv, tobj, descr, ds, dtg, cot) ==
    [source_path |-> sp, target_path |-> tp, dependency_type |-> dt,
     source_value |-> sv, target_object |-> tobj, description |-> descr,
     display_source |-> ds, display_target |-> dtg, config_object_type |-> cot]

\* mutant: the label taken from the last segment of the path
_extract_config_object_name_mut_last(path) ==
    Title(Replace(Split(path, "/")[Len(Split(path, "/"))], "-", " "))

\* cli/main.py _extract_config_object_name
_extract_config_object_name(path) ==
    IF path = "device" THEN "Device Information"
    ELSE LET first == Split(path, "/")[1]
             main_section == IF Contains(first, ":") THEN Split(first, ":")[2] ELSE first
         IN  IF Contains(main_section, "network-instance") THEN "BGP Configuration"
             ELSE IF Contains(main_section, "acl") THEN "Access Control Lists"
             ELSE IF Contains(main_section, "vlan") THEN "VLAN Configuration"
             ELSE IF Contains(main_section, "interface") THEN "Interface Configuration"
             ELSE Title(Replace(main_section, "-", " "))

\* mutant: without the positional fallback of lines 798-805
_path_relates_to_change_mut_identifier(dependency_path, change_path) ==
    /\ _extract_config_object_identifier(dependency_path) # ""
    /\ _extract_config_object_identifier(dependency_path)
          = _extract_config_object_identifier(change_path)

\* cli/main.py _path_relates_to_change
_path_relates_to_change(dependency_path, change_path) ==
    LET dep_object == _extract_config_object_identifier(dependency_path)
        change_object == _extract_config_object_identifier(change_path)
        dep_parts == Split(dependency_path, "/")
        change_parts == Split(change_path, "/")
        n == IF Len(change_parts) < Len(dep_parts) THEN Len(change_parts) ELSE Len(dep_parts)
    IN  IF dep_object # "" /\ change_object # ""
        THEN dep_object = change_object
        ELSE \E i \in 1..n : Contains(dep_parts[i], change_parts[i])

\* an exception raised where a value was to be returned
RaiseV == [t |-> "raise", v |-> "", keys |-> <<>>, items |-> <<>>]

\* name in obj, for an obj that is a dict, a str or a list
NameIn(obj, name) ==
    IF obj.t = "dict" THEN HasKey(obj, name)
    ELSE IF obj.t = "str" THEN Contains(obj.v, name)
    ELSE \E i \in 1..Len(obj.items) : obj.items[i] = StrV(name)

RECURSIVE find_item(_, _, _, _)
\* lines 860-864: the first dict of the list whose key_field reads key_value
find_item(lst, key_field, key_value, i) ==
    IF i > Len(lst.items) THEN NoneV
    ELSE IF /\ isinstance_dict(lst.items[i])
            /\ HasKey(lst.items[i], key_field)
            /\ PyStr(Get(lst.items[i], key_field)) = key_value
    THEN lst.items[i]
    ELSE find_item(lst, key_field, key_value, i + 1)

\* lines 838-873: one part of the path applied to current_obj, not falsy. An
\* int has no `in`, a str or a list that holds the name cannot be indexed
\* by it: both raise TypeError
object_at_part(current_obj, raw_part) ==
    LET part == IF Contains(raw_part, ":")
                THEN Split(raw_part, ":")[Len(Split(raw_part, ":"))] ELSE raw_part
        is_list_key == Contains(part, "[") /\ Contains(part, "]")
        list_name == Split(part, "[")[1]
        key_part == Slice(part, Find(part, "[") + 1, Find(part, "]"))
        eq == Find(key_part, "=")
        key_field == IF eq # -1 THEN Slice(key_part, 0, eq) ELSE "name"
        key_value == IF eq # -1
                     THEN Strip(Slice(key_part, eq + 1, Len(key_part)), "'\"")
                     ELSE key_part
        name == IF is_list_key THEN list_name ELSE part
    IN  IF current_obj.t = "int" THEN RaiseV
        ELSE IF ~NameIn(current_obj, name) THEN NoneV
        ELSE IF current_obj.t # "dict" THEN RaiseV
        ELSE IF ~is_list_key THEN Get(current_obj, name)
        ELSE IF isinstance_list(Get(current_obj, name))
        THEN find_item(Get(current_obj, name), key_field, key_value, 1)
        ELSE NoneV

RECURSIVE object_from(_, _, _)
\* lines 837-875: the loop over path_parts, from the i-th part on
object_from(current_obj, path_parts, i) ==
    IF current_obj = RaiseV THEN RaiseV
    ELSE IF i > Len(path_parts) THEN current_obj
    ELSE IF ~Truthy(current_obj) THEN NoneV
    ELSE object_from(object_at_part(current_obj, path_parts[i]), path_parts, i + 1)

\* cli/main.py _get_object_at_path
_get_object_at_path(config, path) == object_from(config, Split(Strip(path, "/"), "/"), 1)

identifier_fields == <<"name", "id", "vlan-id", "sequence-id", "interface-id", "set-name">>

\* cli/main.py _extract_identifiers_from_object
_extract_identifiers_from_object(obj) ==
    IF ~isinstance_dict(obj) THEN <<>>
    ELSE LET present == SelectSeq(identifier_fields,
                            LAMBDA f : /\ HasKey(obj, f)
                                       /\ Truthy(Get(obj, f))
                                       /\ ~IsDigit(PyStr(Get(obj, f))))
         IN  [i \in 1..Len(present) |-> PyStr(Get(obj, present[i]))]

RECURSIVE Unique(_)
\* the elements of a list in order, each kept at its first place
Unique(q) ==
    IF q = <<>> THEN <<>>
    ELSE LET front == Unique(SubSeq(q, 1, Len(q) - 1))
         IN  IF \E i \in 1..Len(front) : front[i] = q[Len(q)]
             THEN front ELSE Append(front, q[Len(q)])

\* lines 939-949: one direction of the ACL sets of an interface's ACL block
references_in(acl_config, sets_key, set_key, acl_name) ==
    /\ HasKey(acl_config, sets_key)
    /\ LET sets == GetOr(Get(acl_config, sets_key), set_key, ListV(<<>>))
       IN  \E i \in 1..Len(sets.items) :
              PyEq(GetOr(sets.items[i], "set-name", NoneV), StrV(acl_name))

\* mutant: the egress sets of lines 946-950 not looked at
_interface_references_acl_mut_ingress(interface_config, acl_name) ==
    /\ HasKey(interface_config, "openconfig-acl:acl")
    /\ references_in(Get(interface_config, "openconfig-acl:acl"),
                     "ingress-acl-sets", "ingress-acl-set", acl_name)

\* cli/main.py _interface_references_acl
_interface_references_acl(interface_config, acl_name) ==
    /\ HasKey(interface_config, "openconfig-acl:acl")
    /\ LET acl_config == Get(interface_config, "openconfig-acl:acl")
       IN  \/ references_in(acl_config, "ingress-acl-sets", "ingress-acl-set", acl_name)
           \/ references_in(acl_config, "egress-acl-sets", "egress-acl-set", acl_name)

\* lines 915-924: the names of the interfaces that reference the ACL
referencing_interfaces(source_path, acl_name, config) ==
    IF /\ Contains(Lower(source_path), "acl")
       /\ acl_name # ""
       /\ HasKey(config, "openconfig-interfaces:interfaces")
    THEN LET interfaces == GetOr(Get(config, "openconfig-interfaces:interfaces"),
                                 "interface", ListV(<<>>))
             found == SelectSeq(interfaces.items,
                          LAMBDA iface : /\ HasKey(iface, "name")
                                         /\ _interface_references_acl(iface, acl_name))
         IN  Unique([i \in 1..Len(found) |-> PyStr(Get(found[i], "name"))])
    ELSE <<>>

\* cli/main.py _resolve_dependency_target_identifiers_from_current_config,
\* given the target_path, source_path and source_value of the dependency
_resolve_dependency_target_identifiers_from_current_config(target_path, source_path, source_value, config) ==
    LET extracted_from_path == _extract_identifier_from_path(target_path)
        target_object == _get_object_at_path(config, target_path)
    IN  IF extracted_from_path # "" THEN <<extracted_from_path>>
        ELSE IF Truthy(target_object) /\ _extract_identifiers_from_object(target_object) # <<>>
        THEN Unique(_extract_identifiers_from_object(target_object))
        ELSE referencing_interfaces(source_path, source_value, config)

\* cli/main.py _resolve_dependency_target_identifiers: both of its steps
\* read the identifier of dep.source_path, the second adds it when the first
\* has not
_resolve_dependency_target_identifiers(dep) ==
    LET source_identifier == _extract_identifier_from_path(dep.source_path)
    IN  IF source_identifier # "" THEN <<source_identifier>> ELSE <<>>

---------------------------------------------------------------------------
(* cli/main.py: analyze, from the schema result to the Dependency records *)

\* mutant: the test of lines 67-69 dropped, an empty extraction initializes
initialize_schema_analysis_mut_empty(load_ok, extracted) == load_ok

\* TrueSchemaDrivenAnalyzer.initialize_schema_analysis: what it returns, the
\* model loaded or not and extract_all_leafrefs having returned `extracted`
initialize_schema_analysis(load_ok, extracted) == load_ok /\ extracted # <<>>

RECURSIVE detailed_path(_, _, _)
\* lines 396-400: the path of the first change that holds the dependency's
\* change path, that path itself when there is none
detailed_path(config_change_path, chs, i) ==
    IF i > Len(chs) THEN config_change_path
    ELSE IF chs[i].path # "" /\ Contains(chs[i].path, config_change_path)
    THEN chs[i].path
    ELSE detailed_path(config_change_path, chs, i + 1)

\* lines 406-408: the lookups of the leafref target in the two trees raise
target_lookup_raises(true_dep, current, proposed) ==
    LET in_current == _get_object_at_path(current, true_dep.affected_leafref_target)
    IN  \/ in_current = RaiseV
        \/ /\ in_current = NoneV
           /\ _get_object_at_path(proposed, true_dep.affected_leafref_target) = RaiseV

\* lines 396-438: the Dependency of one TrueSchemaDependency
convert_dependency(true_dep, chs, current) ==
    LET source_identifier ==
            _extract_identifier_from_path(detailed_path(true_dep.config_change_path, chs, 1))
        resolved_impacted_identifiers ==
            _resolve_dependency_target_identifiers_from_current_config(
                true_dep.affected_leafref_target, true_dep.config_change_path,
                source_identifier, current)
    IN  Dependency(true_dep.config_change_path, true_dep.affected_leafref_target,
                   "schema_leafref", source_identifier, true_dep.affected_leafref_target,
                   true_dep.leafref_description, source_identifier,
                   IF resolved_impacted_identifiers # <<>>
                   THEN Join(resolved_impacted_identifiers, ", ")
                   ELSE true_dep.affected_leafref_target,
                   _extract_config_object_name(true_dep.config_change_path))

\* lines 448-458: the entry of a changed object without dependencies
no_dep_entry(change) ==
    Dependency(change.path, "", "no_dependency",
               _extract_identifier_from_path(change.path), "",
               "No direct schema-driven dependencies found.",
               _extract_identifier_from_path(change.path), "",
               _extract_config_object_name(change.path))

\* lines 441-459: one entry per change whose identifier no dependency has as
\* its display_source
no_dependency_entries(chs, deps) ==
    LET sources_with_dependencies == {deps[i].display_source : i \in 1..Len(deps)}
        without == SelectSeq(chs,
                       LAMBDA c : /\ _extract_identifier_from_path(c.path) # ""
                                  /\ _extract_identifier_from_path(c.path)
                                        \notin sources_with_dependencies)
    IN  [i \in 1..Len(without) |-> no_dep_entry(without[i])]

\* lines 464-480: a dependency with several targets, one entry per target
expand_dependency(dep) ==
    IF Contains(dep.display_target, ",")
    THEN LET targets == Split(dep.display_target, ",")
         IN  [i \in 1..Len(targets) |->
                 [dep EXCEPT !.display_target = Strip(targets[i], " ")]]
    ELSE <<dep>>

RECURSIVE expand_dependencies(_)
expand_dependencies(deps) ==
    IF deps = <<>> THEN <<>>
    ELSE expand_dependency(Head(deps)) \o expand_dependencies(Tail(deps))

\* line 487: the sort key of a before that of b; False sorts before True
sort_key_less(a, b) ==
    \/ StrLess(a.display_source, b.display_source)
    \/ /\ a.display_source = b.display_source
       /\ a.display_target = ""
       /\ b.display_target # ""

RECURSIVE insert_sorted(_, _)
\* dep put behind every entry of the sorted list it does not sort before
insert_sorted(sorted, dep) ==
    IF sorted = <<>> THEN <<dep>>
    ELSE IF sort_key_less(dep, sorted[Len(sorted)])
    THEN Append(insert_sorted(SubSeq(sorted, 1, Len(sorted) - 1), dep), sorted[Len(sorted)])
    ELSE Append(sorted, dep)

RECURSIVE sort_dependencies(_)
\* line 487: list.sort, which is stable
sort_dependencies(deps) ==
    IF deps = <<>> THEN <<>>
    ELSE insert_sorted(sort_dependencies(SubSeq(deps, 1, Len(deps) - 1)), deps[Len(deps)])

RECURSIVE deduplicate(_)
\* lines 489-493: the first entry of every (display_source, display_target)
deduplicate(deps) ==
    IF deps = <<>> THEN <<>>
    ELSE LET front == deduplicate(SubSeq(deps, 1, Len(deps) - 1))
             dep == deps[Len(deps)]
         IN  IF \E i \in 1..Len(front) :
                   /\ front[i].display_source = dep.display_source
                   /\ front[i].display_target = dep.display_target
             THEN front ELSE Append(front, dep)

\* lines 392-495: the dependencies of a successful schema analysis
converted_dependencies(true_deps, chs, current) ==
    LET converted == [i \in 1..Len(true_deps) |-> convert_dependency(true_deps[i], chs, current)]
    IN  deduplicate(sort_dependencies(expand_dependencies(
            converted \o no_dependency_entries(chs, converted))))

---------------------------------------------------------------------------
(* cli/main.py: _analyze_per_object_impact *)

\* lines 709-714: the keys of changes_by_object, in insertion order
changed_objects(chs) ==
    Unique([i \in 1..Len(chs) |-> _extract_config_object_name(chs[i].path)])

\* changes_by_object[config_object]
object_changes_of(chs, config_object) ==
    SelectSeq(chs, LAMBDA c : _extract_config_object_name(c.path) = config_object)

RECURSIVE object_dependencies_of(_, _)
\* lines 720-725: for every change of the object, in order, the dependencies
\* that relate to it
object_dependencies_of(object_changes, deps) ==
    IF object_changes = <<>> THEN <<>>
    ELSE SelectSeq(deps, LAMBDA d :
                      _path_relates_to_change(d.source_path, Head(object_changes).path))
         \o object_dependencies_of(Tail(object_changes), deps)

\* lines 731-737: the bracketed identifiers of one path, in order
bracket_identifiers(path) ==
    LET with_bracket == SelectSeq(Split(path, "/"), has_bracketed)
    IN  [i \in 1..Len(with_bracket) |-> bracketed(with_bracket[i])]

RECURSIVE all_bracket_identifiers(_)
all_bracket_identifiers(object_changes) ==
    IF object_changes = <<>> THEN <<>>
    ELSE bracket_identifiers(Head(object_changes).path)
         \o all_bracket_identifiers(Tail(object_changes))

\* mutant: numeric bracket contents kept
changed_identifiers_of_mut_numeric(object_changes) ==
    Unique(all_bracket_identifiers(object_changes))

\* lines 728-739: changed_identifiers
changed_identifiers_of(object_changes) ==
    Unique(SelectSeq(all_bracket_identifiers(object_changes), LAMBDA id : ~IsDigit(id)))

\* lines 745-753: the identifiers one dependency resolves to
resolved_identifiers(dep) ==
    IF dep.display_target # "" /\ dep.display_target # dep.target_path
    THEN LET target_names == Split(dep.display_target, ",")
         IN  SelectSeq([i \in 1..Len(target_names) |-> Strip(target_names[i], " ")],
                       LAMBDA name : name # "")
    ELSE _resolve_dependency_target_identifiers(dep)

\* mutant: the test against changed_identifiers dropped
is_new_identifier_mut_unfiltered(name, changed_identifiers, impacted_identifiers) ==
    \A i \in 1..Len(impacted_identifiers) : impacted_identifiers[i] # name

\* lines 749 and 755: name not in changed_identifiers and not in
\* impacted_identifiers
is_new_identifier(name, changed_identifiers, impacted_identifiers) ==
    /\ \A i \in 1..Len(changed_identifiers) : changed_identifiers[i] # name
    /\ \A i \in 1..Len(impacted_identifiers) : impacted_identifiers[i] # name

RECURSIVE add_identifiers(_, _, _)
\* lines 748-750 and 754-756: the names appended to impacted_identifiers
add_identifiers(names, changed_identifiers, impacted_identifiers) ==
    IF names = <<>> THEN impacted_identifiers
    ELSE add_identifiers(
             Tail(names), changed_identifiers,
             IF is_new_identifier(Head(names), changed_identifiers, impacted_identifiers)
             THEN Append(impacted_identifiers, Head(names))
             ELSE impacted_identifiers)

RECURSIVE impacted_identifiers_of(_, _, _)
\* lines 742-756: impacted_identifiers, the loop over object_dependencies
impacted_identifiers_of(object_dependencies, changed_identifiers, impacted_identifiers) ==
    IF object_dependencies = <<>> THEN impacted_identifiers
    ELSE impacted_identifiers_of(
             Tail(object_dependencies), changed_identifiers,
             add_identifiers(resolved_identifiers(Head(object_dependencies)),
                             changed_identifiers, impacted_identifiers))

RECURSIVE unique_dependencies_of(_)
\* lines 762-768: the first dependency of every (target_path, source_value)
unique_dependencies_of(object_dependencies) ==
    IF object_dependencies = <<>> THEN <<>>
    ELSE LET front == unique_dependencies_of(
                          SubSeq(object_dependencies, 1, Len(object_dependencies) - 1))
             dep == object_dependencies[Len(object_dependencies)]
         IN  IF \E i \in 1..Len(front) :
                   /\ front[i].target_path = dep.target_path
                   /\ front[i].source_value = dep.source_value
             THEN front ELSE Append(front, dep)

\* lines 718-774: object_impacts[config_object]
object_impact(chs, deps, config_object) ==
    LET object_changes == object_changes_of(chs, config_object)
        object_dependencies == object_dependencies_of(object_changes, deps)
        changed_identifiers == changed_identifiers_of(object_changes)
    IN  [config_object |-> config_object,
         change_count |-> Len(object_changes),
         dependencies |-> unique_dependencies_of(object_dependencies),
         all_identifiers |->
             changed_identifiers
             \o impacted_identifiers_of(object_dependencies, changed_identifiers, <<>>)]

\* cli/main.py _analyze_per_object_impact; object_impacts is the list of its
\* entries in insertion order
_analyze_per_object_impact(chs, deps) ==
    LET objects == changed_objects(chs)
        object_impacts == [i \in 1..Len(objects) |-> object_impact(chs, deps, objects[i])]
    IN  [object_impacts |-> object_impacts,
         total_objects_changed |-> Len(objects),
         total_objects_with_impacts |->
             Cardinality({i \in 1..Len(objects) : object_impacts[i].dependencies # <<>>})]

---------------------------------------------------------------------------
(* The configuration trees the diff is run on *)

\* the longest list a generated tree holds
MaxListLen == 2

Sx == StrV("x")
Sy == StrV("y")
I10 == IntV("10")
D1 == DictV(<<"c">>, <<Sx>>)
D2 == DictV(<<"a", "c">>, <<Sx, Sy>>)

\* list elements: keyed by name, with and without content, one with a nested
\* mapping, one with no key field, one keyed by an integer id, one whose name
\* reads like a position, and a scalar
E_x == DictV(<<"name">>, <<Sx>>)
E_xv == DictV(<<"name", "v">>, <<Sx, Sy>>)
E_y == DictV(<<"name", "v">>, <<Sy, D1>>)
E_nokey == DictV(<<"v">>, <<Sx>>)
E_id10 == DictV(<<"id", "v">>, <<I10, Sx>>)
E_0 == DictV(<<"name">>, <<StrV("0")>>)
ItemPool == {E_x, E_xv, E_y, E_nokey, E_id10, E_0, Sx}

ListPool == UNION {{ListV(xs) : xs \in [1..n -> ItemPool]} : n \in 0..MaxListLen}

L_xy == ListV(<<E_x, E_y>>)
L_yx == ListV(<<E_y, E_xv>>)
LeafPool == {Sx, I10, D1, L_xy, L_yx}
KeySeqs == {<<>>, <<"a">>, <<"b">>, <<"a", "b">>, <<"b", "a">>}
DictPool == UNION {{DictV(ks, vs) : vs \in [1..Len(ks) -> LeafPool]} : ks \in KeySeqs}

SectionPool == {Sx, Sy, I10} \cup ListPool \cup DictPool

\* trees with the single section acl, and a few top-level shapes around it
SmallPool == {Sx, Sy, D1, D2, L_xy, L_yx}
Dev1 == DictV(<<"hostname">>, <<Sx>>)
Dev2 == StrV("sw")
CurTops ==
    {DictV(<<>>, <<>>)}
    \cup {DictV(<<"acl">>, <<a>>) : a \in SmallPool}
    \cup {DictV(<<"device", "acl">>, <<Dev1, a>>) : a \in SmallPool}
    \cup {DictV(<<"acl", "vlans">>, <<a, D1>>) : a \in SmallPool}
Vlan10 == DictV(<<"10">>, <<DictV(<<"name">>, <<StrV("PROD")>>)>>)
PropTops ==
    {DictV(<<>>, <<>>), DictV(<<"vlans", "device">>, <<D2, Dev2>>), DictV(<<"vlans">>, <<Vlan10>>)}
    \cup {DictV(<<"acl">>, <<b>>) : b \in SmallPool}
    \cup {DictV(<<"device", "acl">>, <<Dev2, b>>) : b \in SmallPool}
    \cup {DictV(<<"vlans", "acl">>, <<Sy, b>>) : b \in SmallPool}

DiffInputs ==
    {<<DictV(<<"acl">>, <<a>>), DictV(<<"acl">>, <<b>>)>> : a, b \in SectionPool}
    \cup (CurTops \X PropTops)
    \cup {<<t, t>> : t \in CurTops \cup PropTops}

---------------------------------------------------------------------------
(* The diff run: compare_configs applied to a pair of trees *)

\* the state of the parts a run does not use
IdentIdle == config_path = "" /\ actual_identifier = "" /\ cli_identifier = ""
AnalyzerIdle ==
    /\ initialized = FALSE
    /\ true_leafrefs = <<>>
    /\ schema_changes = <<>>
    /\ true_dependencies = <<>>
DiffIdle ==
    /\ current_config = DictV(<<>>, <<>>)
    /\ proposed_config = DictV(<<>>, <<>>)
    /\ changes = <<>>
CliIdle ==
    /\ schema_result = ""
    /\ dependencies = <<>>
    /\ impact_analysis = <<>>
ResolveIdle == target_obj = NoneV /\ obj_identifiers = <<>>
CacheIdle ==
    /\ _reference_cache = <<>>
    /\ build_calls = <<>>
    /\ traversals = <<>>
    /\ schema_root = NoneV

InitDiff ==
    /\ pc = "start"
    /\ changes = <<>>
    /\ IdentIdle /\ AnalyzerIdle /\ CliIdle /\ ResolveIdle /\ CacheIdle
    /\ \E pair \in DiffInputs :
          /\ current_config = pair[1]
          /\ proposed_config = pair[2]

CompareConfigs ==
    /\ pc = "start"
    /\ changes' = compare_configs(current_config, proposed_config)
    /\ pc' = "done"
    /\ UNCHANGED <<current_config, proposed_config, ident_vars, analyzer_vars, cli_vars, resolve_vars, cache_vars>>

NextDiff == CompareConfigs

SpecDiff == InitDiff /\ [][NextDiff]_vars

---------------------------------------------------------------------------
(* Properties of the diff *)

HasPrefix(s, p) == Len(s) >= Len(p) /\ SubSeq(s, 1, Len(p)) = p

KeySet(d) == {d.keys[i] : i \in 1..Len(d.keys)}

\* the key the diff gives the i-th element of a list, and the keys of a list
ElemKey(lst, i) == _get_list_item_key(lst.items[i], i - 1)
ElemKeys(lst) == {ElemKey(lst, i) : i \in 1..Len(lst.items)}

\* the element a key stands for: the last one carrying it
LastWith(lst, k) ==
    lst.items[CHOOSE i \in 1..Len(lst.items) :
                 /\ ElemKey(lst, i) = k
                 /\ \A j \in (i + 1)..Len(lst.items) : ElemKey(lst, j) # k]

Shape(x) == IF x.t = "dict" THEN "mapping" ELSE IF x.t = "list" THEN "list" ELSE "scalar"

\* a list some element of which is a mapping or a list: its elements are
\* addressed one by one
ElementWise(lst) == \E i \in 1..Len(lst.items) : Shape(lst.items[i]) # "scalar"

AddedPaths == SelectSeq([i \in 1..Len(changes) |-> changes[i]],
                        LAMBDA c : c.change_type = "added")

CountAddedAt(p) ==
    Cardinality({i \in 1..Len(changes) :
                    changes[i].change_type = "added" /\ changes[i].path = p})

\* C1: idempotence: compare_configs(t, t) returns no ChangeRecord, for every
\* tree t
C1_Idempotence ==
    (pc = "done" /\ current_config = proposed_config) => changes = <<>>

\* a tree diffed against itself whose acl list repeats a key with different
\* content
C1_Witness ==
    /\ pc = "done"
    /\ current_config = proposed_config
    /\ HasKey(proposed_config, "acl")
    /\ Get(proposed_config, "acl") = ListV(<<E_x, E_xv>>)

RECURSIVE AbsentKeyPaths(_, _, _)
\* the paths of the keys of prop, at any depth, that cur does not hold: a
\* mapping key, or a list element that is a mapping, named by its key
AbsentKeyPaths(cur, prop, path) ==
    IF Shape(prop) = "mapping"
    THEN UNION {LET kp == path \o "/" \o k
                IN  IF Shape(cur) = "mapping" /\ HasKey(cur, k)
                    THEN AbsentKeyPaths(Get(cur, k), Get(prop, k), kp)
                    ELSE {kp} \cup AbsentKeyPaths(NoneV, Get(prop, k), kp)
                : k \in KeySet(prop)}
    ELSE IF Shape(prop) = "list"
    THEN UNION {LET k == ElemKey(prop, i)
                    ip == path \o "[" \o k \o "]"
                IN  IF Shape(prop.items[i]) # "mapping" THEN {}
                    ELSE IF Shape(cur) = "list" /\ k \in ElemKeys(cur)
                    THEN AbsentKeyPaths(LastWith(cur, k), LastWith(prop, k), ip)
                    ELSE {ip} \cup AbsentKeyPaths(NoneV, LastWith(prop, k), ip)
                : i \in 1..Len(prop.items)}
    ELSE {}

AbsentTopLevel(cur, prop) ==
    UNION {IF HasKey(cur, k)
           THEN AbsentKeyPaths(Get(cur, k), Get(prop, k), k)
           ELSE {k} \cup AbsentKeyPaths(NoneV, Get(prop, k), k)
           : k \in KeySet(prop)}

\* C2 as stated: every key of proposed that current lacks, at any depth, has
\* exactly one added record at its path
C2_Original ==
    pc = "done" =>
        \A p \in AbsentTopLevel(current_config, proposed_config) : CountAddedAt(p) = 1

RECURSIVE ExpectedAdded(_, _, _)
RECURSIVE ExpectedAddedKeys(_, _, _, _)
RECURSIVE ExpectedAddedElems(_, _, _, _)
\* the paths of the keys proposed holds and current lacks whose parent is
\* held by both trees in the same container shape, in traversal order
ExpectedAdded(cur, prop, path) ==
    IF Shape(cur) = "mapping" /\ Shape(prop) = "mapping"
    THEN ExpectedAddedKeys(cur, prop, path, 1)
    ELSE IF Shape(cur) = "list" /\ Shape(prop) = "list" /\ ElementWise(prop)
    THEN ExpectedAddedElems(cur, prop, path, 1)
    ELSE <<>>

ExpectedAddedKeys(cur, prop, path, i) ==
    IF i > Len(prop.keys) THEN <<>>
    ELSE (IF HasKey(cur, prop.keys[i])
          THEN ExpectedAdded(Get(cur, prop.keys[i]), prop.items[i],
                             path \o "/" \o prop.keys[i])
          ELSE <<path \o "/" \o prop.keys[i]>>)
         \o ExpectedAddedKeys(cur, prop, path, i + 1)

ExpectedAddedElems(cur, prop, path, i) ==
    IF i > Len(prop.items) THEN <<>>
    ELSE (LET k == ElemKey(prop, i)
          IN  IF \E j \in 1..(i - 1) : ElemKey(prop, j) = k THEN <<>>
              ELSE IF k \in ElemKeys(cur)
              THEN ExpectedAdded(LastWith(cur, k), LastWith(prop, k),
                                 path \o "[" \o k \o "]")
              ELSE <<path \o "[" \o k \o "]">>)
         \o ExpectedAddedElems(cur, prop, path, i + 1)

RECURSIVE ExpectedAddedTop(_, _, _)
ExpectedAddedTop(cur, prop, i) ==
    IF i > Len(prop.keys) THEN <<>>
    ELSE (IF prop.keys[i] = "device" THEN <<>>
          ELSE IF HasKey(cur, prop.keys[i])
          THEN ExpectedAdded(Get(cur, prop.keys[i]), prop.items[i], prop.keys[i])
          ELSE <<prop.keys[i]>>)
         \o ExpectedAddedTop(cur, prop, i + 1)

\* C2, amended: outside the skipped section device, the added records are,
\* one each and in traversal order, the keys of proposed that current lacks
\* and whose parent both trees hold in the same container shape
C2_Completeness ==
    pc = "done" =>
        [i \in 1..Len(AddedPaths) |-> AddedPaths[i].path]
            = ExpectedAddedTop(current_config, proposed_config, 1)

\* a diff with an added mapping key that has a key below it, and a key added
\* inside a matched list element
C2_Witness ==
    /\ pc = "done"
    /\ HasKey(current_config, "acl") /\ HasKey(proposed_config, "acl")
    /\ Get(current_config, "acl") = DictV(<<"a">>, <<L_xy>>)
    /\ Get(proposed_config, "acl") = DictV(<<"b", "a">>, <<D1, L_yx>>)
    /\ [i \in 1..Len(AddedPaths) |-> AddedPaths[i].path] = <<"acl/b", "acl/a[x]/v">>

\* the lists held at the same place by both trees: the section acl itself,
\* or the value of a key of the section acl
ListSites ==
    IF ~(HasKey(current_config, "acl") /\ HasKey(proposed_config, "acl")) THEN {}
    ELSE LET c == Get(current_config, "acl")
             p == Get(proposed_config, "acl")
         IN  (IF Shape(c) = "list" /\ Shape(p) = "list"
              THEN {[path |-> "acl", cur |-> c, prop |-> p]} ELSE {})
             \cup
             (IF Shape(c) = "mapping" /\ Shape(p) = "mapping"
              THEN {[path |-> "acl/" \o k, cur |-> Get(c, k), prop |-> Get(p, k)] :
                       k \in {kk \in KeySet(c) \cap KeySet(p) :
                                 /\ Shape(Get(c, kk)) = "list"
                                 /\ Shape(Get(p, kk)) = "list"}}
              ELSE {})

\* every element is a mapping that carries one of the key fields
AllKeyed(lst) ==
    \A i \in 1..Len(lst.items) :
        Shape(lst.items[i]) = "mapping" /\ first_candidate(lst.items[i], 1) # ""

KeyCount(lst, k) == Cardinality({i \in 1..Len(lst.items) : ElemKey(lst, i) = k})

\* prop holds the key-field values of cur, each as often, in any order
Reordered(cur, prop) ==
    /\ Len(cur.items) = Len(prop.items)
    /\ Len(cur.items) > 0
    /\ AllKeyed(cur) /\ AllKeyed(prop)
    /\ \A k \in ElemKeys(cur) \cup ElemKeys(prop) : KeyCount(cur, k) = KeyCount(prop, k)

\* C3: list identity stability: when a list of mappings of proposed holds
\* the same key-field values as the list of current at that place, in any
\* order, no element of the list gets an added or deleted record, and every
\* record of the list lies inside a matched element, its path starting with
\* segment[key]
C3_ListIdentityStability ==
    pc = "done" =>
        \A site \in ListSites :
            Reordered(site.cur, site.prop) =>
                \A i \in 1..Len(changes) :
                    (changes[i].path = site.path \/ HasPrefix(changes[i].path, site.path \o "[")) =>
                        \E k \in ElemKeys(site.prop) :
                            /\ HasPrefix(changes[i].path, site.path \o "[" \o k \o "]/")
                            /\ changes[i].change_type \in {"added", "modified"}

\* the list under acl/a reordered, one matched element with new content
C3_Witness ==
    /\ pc = "done"
    /\ \E site \in ListSites :
          /\ site.path = "acl/a"
          /\ site.cur = L_xy /\ site.prop = L_yx
    /\ \E i \in 1..Len(changes) : changes[i].path = "acl/a[x]/v"

\* C6: partial mode: a top-level section held by current only yields no
\* ChangeRecord; every record lies at or below a top-level section of
\* proposed
C6_PartialMode ==
    pc = "done" =>
        \A i \in 1..Len(changes) :
            \E k \in KeySet(proposed_config) :
                \/ changes[i].path = k
                \/ HasPrefix(changes[i].path, k \o "/")
                \/ HasPrefix(changes[i].path, k \o "[")

\* current holds the section vlans, proposed does not, and the diff found
\* changes elsewhere
C6_Witness ==
    /\ pc = "done"
    /\ HasKey(current_config, "vlans") /\ ~HasKey(proposed_config, "vlans")
    /\ changes # <<>>

RECURSIVE Mismatches(_, _, _)
\* the places both trees hold, reached key by key and element by element,
\* where the two values are of different shapes
Mismatches(cur, prop, path) ==
    IF Shape(cur) # Shape(prop)
    THEN {[path |-> path, old |-> cur, new |-> prop]}
    ELSE IF Shape(prop) = "mapping"
    THEN UNION {Mismatches(Get(cur, k), Get(prop, k), path \o "/" \o k) :
                   k \in KeySet(cur) \cap KeySet(prop)}
    ELSE IF Shape(prop) = "list" /\ ElementWise(prop)
    THEN UNION {Mismatches(LastWith(cur, k), LastWith(prop, k), path \o "[" \o k \o "]") :
                   k \in ElemKeys(cur) \cap ElemKeys(prop)}
    ELSE {}

MismatchesIn(sections) ==
    UNION {Mismatches(Get(current_config, k), Get(proposed_config, k), k) :
              k \in (KeySet(current_config) \cap KeySet(proposed_config)) \cap sections}

Reported(m) ==
    Cardinality({i \in 1..Len(changes) :
                    changes[i] = ConfigChange(m.path, "modified", m.old, m.new)}) = 1

\* C7 as stated: every place both trees hold with values of different
\* shapes has a modified record carrying the old and the new value
C7_Original ==
    pc = "done" =>
        \A m \in MismatchesIn(KeySet(proposed_config)) : Reported(m)

\* C7, amended: the same, outside the skipped top-level section device
C7_ShapeMismatch ==
    pc = "done" =>
        \A m \in MismatchesIn(KeySet(proposed_config) \ {"device"}) : Reported(m)

\* two mismatches in one mapping, mapping against scalar and list against
\* scalar: both are reported, the traversal went on after the first
C7_Witness ==
    /\ pc = "done"
    /\ Cardinality(MismatchesIn(KeySet(proposed_config) \ {"device"})) = 2
    /\ Len(changes) = 2
    /\ changes[1].path = "acl/a" /\ Shape(changes[1].old_value) = "mapping"
    /\ changes[2].path = "acl/b" /\ Shape(changes[2].new_value) = "list"

---------------------------------------------------------------------------
(* The identifier run: both extractors applied to a path *)

\* the most segments a generated path has
MaxPathLen == 3

SegmentPool ==
    {"acl-sets", "openconfig-acl:acl", "acl-set[USER_INBOUND_V4]", "acl-entry[10]",
     "interface[eth1]", "config", "state", "oc-if:name"}

PathPool == UNION {{Join(segs, "/") : segs \in [1..n -> SegmentPool]} : n \in 1..MaxPathLen}

InitIdent ==
    /\ pc = "start"
    /\ config_path \in PathPool
    /\ actual_identifier = ""
    /\ cli_identifier = ""
    /\ DiffIdle /\ AnalyzerIdle /\ CliIdle /\ ResolveIdle /\ CacheIdle

\* the analyzer extracts the identifier of a dependency's change path
ExtractObjectIdentifier ==
    /\ pc = "start"
    /\ actual_identifier' = _extract_object_identifier(config_path)
    /\ pc' = "extracted"
    /\ UNCHANGED <<config_path, cli_identifier, diff_vars, analyzer_vars, cli_vars, resolve_vars, cache_vars>>

\* the CLI extracts it again from the detailed path
ExtractIdentifierFromPath ==
    /\ pc = "extracted"
    /\ cli_identifier' = _extract_identifier_from_path(config_path)
    /\ pc' = "done"
    /\ UNCHANGED <<config_path, actual_identifier, diff_vars, analyzer_vars, cli_vars, resolve_vars, cache_vars>>

NextIdent == ExtractObjectIdentifier \/ ExtractIdentifierFromPath

SpecIdent == InitIdent /\ [][NextIdent]_vars

\* the segments of a path and the text each holds in brackets ("" for none)
Segments(path) == Split(path, "/")
BracketOf(seg) ==
    IF \E i, j \in 1..Len(seg) :
          i + 1 < j /\ SubSeq(seg, i, i) = "[" /\ SubSeq(seg, j, j) = "]"
    THEN bracketed(seg) ELSE ""
Named(seg) == BracketOf(seg) # "" /\ ~IsDigit(BracketOf(seg))
Generic(seg) == clean_part(seg) \in {"config", "state"}

\* what identifierFromPath is to return: the bracket content of the first
\* segment with a non-numeric one, else the last segment that is not config
\* or state, its module prefix stripped
IdentifierFromPath(path) ==
    LET segs == Segments(path)
    IN  IF \E i \in 1..Len(segs) : Named(segs[i])
        THEN BracketOf(segs[CHOOSE i \in 1..Len(segs) :
                                /\ Named(segs[i])
                                /\ \A j \in 1..(i - 1) : ~Named(segs[j])])
        ELSE IF \E i \in 1..Len(segs) : ~Generic(segs[i])
        THEN clean_part(segs[CHOOSE i \in 1..Len(segs) :
                                /\ ~Generic(segs[i])
                                /\ \A j \in (i + 1)..Len(segs) : Generic(segs[j])])
        ELSE "Unknown"

\* C10: identifierFromPath returns the content of the first bracketed
\* segment that is not purely numeric, else the last segment, prefix
\* stripped, that is not config or state: stated of both implementations
C10_IdentifierFromPath ==
    (/\ pc = "done"
     /\ \E i \in 1..Len(Segments(config_path)) :
            Named(Segments(config_path)[i]) \/ ~Generic(Segments(config_path)[i]))
    =>  /\ actual_identifier = IdentifierFromPath(config_path)
        /\ cli_identifier = IdentifierFromPath(config_path)

\* the analyzer's _extract_object_identifier alone does return it
C10_AnalyzerExtractor ==
    pc \in {"extracted", "done"} => actual_identifier = IdentifierFromPath(config_path)

---------------------------------------------------------------------------
(* The matcher run: the analyzer is initialized, or not, and asked for the  *)
(* dependencies of a list of changes                                         *)

\* the most changes and the most leafrefs a generated run holds
MaxChanges == 2
MaxLeafrefs == 2

ChangePathPool ==
    {"acl-sets/acl-set[USER_INBOUND_V4]/config/name",
     "interfaces/interface[eth1]/config/description",
     "bgp/global/as",
     "vlans/vlan[10]/config",
     "BGP/Neighbors",
     "openconfig-vlan:vlans/vlan[20]"}

LeafrefPool ==
    {Leafref("interfaces/interface/name", "../config/name", "interface name"),
     Leafref("acl/interfaces/interface/ingress-acl-sets/ingress-acl-set/set-name",
             "../../../../../acl-sets/acl-set/config/name", "acl set"),
     Leafref("bgp/neighbors/neighbor/peer-group",
             "../../peer-groups/peer-group/peer-group-name", ""),
     Leafref("lldp/port",
             "/ietf-interfaces:interfaces-state/ietf-interfaces:interface/ietf-vlan", ""),
     Leafref("vlans/vlan/vlan-id", "../members/vlan-id", ""),
     Leafref("lldp/interfaces/interface/port-id", "../state/port-id", "lldp port")}

ChangeSeqs ==
    UNION {{[i \in 1..n |-> ConfigurationChange(ps[i], "modified", Sx, Sy)] :
               ps \in [1..n -> ChangePathPool]} : n \in 0..MaxChanges}

LeafrefSeqs == UNION {[1..n -> LeafrefPool] : n \in 0..MaxLeafrefs}

InitMatch ==
    /\ pc = "start"
    /\ initialized = FALSE
    /\ true_leafrefs = <<>>
    /\ schema_changes \in ChangeSeqs
    /\ true_dependencies = <<>>
    /\ DiffIdle /\ IdentIdle /\ CliIdle /\ ResolveIdle /\ CacheIdle

\* TrueSchemaDrivenAnalyzer.initialize_schema_analysis: the model loads or
\* not, and extract_all_leafrefs returns some list of leafrefs
InitializeSchemaAnalysis ==
    /\ pc = "start"
    /\ \E load_ok \in BOOLEAN, extracted \in LeafrefSeqs :
          /\ true_leafrefs' = IF load_ok THEN extracted ELSE true_leafrefs
          /\ initialized' = (initialized \/ initialize_schema_analysis(load_ok, extracted))
    /\ pc' = "schema"
    /\ UNCHANGED <<schema_changes, true_dependencies, diff_vars, ident_vars, cli_vars, resolve_vars, cache_vars>>

FindSchemaDrivenDependencies ==
    /\ pc \in {"start", "schema"}
    /\ true_dependencies' =
          find_schema_driven_dependencies(initialized, true_leafrefs, schema_changes)
    /\ pc' = "done"
    /\ UNCHANGED <<initialized, true_leafrefs, schema_changes, diff_vars, ident_vars, cli_vars, resolve_vars, cache_vars>>

NextMatch == InitializeSchemaAnalysis \/ FindSchemaDrivenDependencies

SpecMatch == InitMatch /\ [][NextMatch]_vars

\* the (change, leafref) pairs in change-major order, and those that match
PairAt(k) == <<((k - 1) \div Len(true_leafrefs)) + 1, ((k - 1) % Len(true_leafrefs)) + 1>>
MatchingPairs ==
    SelectSeq([k \in 1..(Len(schema_changes) * Len(true_leafrefs)) |-> PairAt(k)],
              LAMBDA pr : _schema_path_matches(schema_changes[pr[1]].path, true_leafrefs[pr[2]]))

\* C9: the matcher emits exactly one DependencyRecord for every (change,
\* edge) pair the match predicate holds of and none for any other, in
\* change-major then edge order, each with the change's path, the edge's
\* source and target, kind direct_leafref and the identifier extracted from
\* the change path
C9_OneRecordPerMatch ==
    pc = "done" =>
        LET pairs == MatchingPairs
        IN
        /\ Len(true_dependencies) = Len(pairs)
        /\ \A k \in 1..Len(pairs) :
              LET change == schema_changes[pairs[k][1]]
                  edge == true_leafrefs[pairs[k][2]]
                  dep == true_dependencies[k]
              IN  /\ dep.config_change_path = change.path
                  /\ dep.affected_leafref_source = edge.source_path
                  /\ dep.affected_leafref_target = edge.target_path
                  /\ dep.dependency_type = "direct_leafref"
                  /\ dep.actual_object_identifier = _extract_object_identifier(change.path)

\* two changes against two leafrefs: the first change matches both, the
\* second only the first leafref
C9_Witness ==
    /\ pc = "done"
    /\ Len(schema_changes) = 2 /\ Len(true_leafrefs) = 2
    /\ MatchingPairs = <<<<1, 1>>, <<1, 2>>, <<2, 1>>>>
    /\ Len(true_dependencies) = 3

---------------------------------------------------------------------------
(* The analyze run: cli/main.py analyze on a device configuration and a     *)
(* proposed partial configuration                                           *)

AclSet(name, config_name, descr) ==
    DictV(<<"name", "config">>,
          <<StrV(name), DictV(<<"name", "description">>, <<StrV(config_name), StrV(descr)>>)>>)

AclSets(acl_sets) == DictV(<<"acl-set">>, <<ListV(acl_sets)>>)

IngressAcl(set_name) ==
    DictV(<<"ingress-acl-sets">>,
          <<DictV(<<"ingress-acl-set">>, <<ListV(<<DictV(<<"set-name">>, <<StrV(set_name)>>)>>)>>)>>)

Interface(name, descr) ==
    DictV(<<"name", "config">>, <<StrV(name), DictV(<<"description">>, <<StrV(descr)>>)>>)

InterfaceWithAcl(name, descr, set_name) ==
    DictV(<<"name", "config", "openconfig-acl:acl">>,
          <<StrV(name), DictV(<<"description">>, <<StrV(descr)>>), IngressAcl(set_name)>>)

Interfaces(interfaces) == DictV(<<"interface">>, <<ListV(interfaces)>>)

Bgp(as) == DictV(<<"global">>, <<DictV(<<"as">>, <<IntV(as)>>)>>)

Vlans(vlan_name) ==
    DictV(<<"vlan">>,
          <<ListV(<<DictV(<<"vlan-id", "config">>,
                          <<IntV("10"), DictV(<<"name">>, <<StrV(vlan_name)>>)>>)>>)>>)

\* the device: one ACL, bound to both interfaces, to one, or no interfaces
CurrentPool ==
    {DictV(<<"acl-sets", "openconfig-interfaces:interfaces", "bgp", "vlans">>,
           <<AclSets(<<AclSet("USER_INBOUND_V4", "USER_INBOUND_V4", "in")>>),
             Interfaces(<<InterfaceWithAcl("eth1", "up", "USER_INBOUND_V4"), second>>),
             Bgp("65001"), Vlans("v10")>>) :
        second \in {InterfaceWithAcl("eth2", "up", "USER_INBOUND_V4"), Interface("eth2", "up")}}
    \cup
    {DictV(<<"acl-sets", "bgp", "vlans">>,
           <<AclSets(<<AclSet("USER_INBOUND_V4", "USER_INBOUND_V4", "in")>>),
             Bgp("65001"), Vlans("v10")>>)}

\* what a proposed configuration may say of each section; NoneV: nothing
ProposedSections ==
    [acl |-> {NoneV,
              AclSets(<<AclSet("USER_INBOUND_V4", "USER_IN", "in")>>),
              AclSets(<<AclSet("USER_INBOUND_V4", "USER_INBOUND_V4", "inbound")>>),
              AclSets(<<AclSet("GUEST", "GUEST", "guests")>>),
              AclSets(<<AclSet("USER_INBOUND_V4", "USER_IN", "in"),
                        AclSet("GUEST", "GUEST", "guests")>>)},
     interfaces |-> {NoneV, Interfaces(<<InterfaceWithAcl("eth1", "down", "USER_INBOUND_V4")>>)},
     bgp |-> {NoneV, Bgp("65002")},
     vlans |-> {NoneV, Vlans("v11")}]

\* the dict of the sections that are said, in this order
ProposedOf(acl, interfaces, bgp, vlans) ==
    LET all == <<<<"acl-sets", acl>>, <<"openconfig-interfaces:interfaces", interfaces>>,
                 <<"bgp", bgp>>, <<"vlans", vlans>>>>
        said == SelectSeq(all, LAMBDA kv : kv[2] # NoneV)
    IN  DictV([i \in 1..Len(said) |-> said[i][1]], [i \in 1..Len(said) |-> said[i][2]])

\* analyze goes on only with a proposed configuration that is not empty
ProposedPool ==
    {ProposedOf(a, i, b, v) : a \in ProposedSections.acl, i \in ProposedSections.interfaces,
                              b \in ProposedSections.bgp, v \in ProposedSections.vlans}
    \ {DictV(<<>>, <<>>)}

InitAnalyze ==
    /\ pc = "start"
    /\ current_config \in CurrentPool
    /\ proposed_config \in ProposedPool
    /\ changes = <<>>
    /\ IdentIdle /\ AnalyzerIdle /\ CliIdle /\ ResolveIdle /\ CacheIdle

\* line 369: changes = diff_engine.compare_configs(current_config, proposed_config)
DiffConfigs ==
    /\ pc = "start"
    /\ changes' = compare_configs(current_config, proposed_config)
    /\ pc' = "diffed"
    /\ UNCHANGED <<current_config, proposed_config, ident_vars, analyzer_vars, cli_vars, resolve_vars, cache_vars>>

\* a configuration file that is missing or cannot be read
MissingFile == NoneV

\* TrueSchemaDrivenAnalyzer.load_configuration_files: a missing current
\* file reads as {}, a proposed file that cannot be read gives {}, {}
load_configuration_files(current_file, proposed_file) ==
    IF proposed_file = MissingFile THEN <<DictV(<<>>, <<>>), DictV(<<>>, <<>>)>>
    ELSE <<IF current_file = MissingFile THEN DictV(<<>>, <<>>) ELSE current_file,
           proposed_file>>

\* mutant: an empty proposed configuration analysed like any other
proposed_missing_mut_never(proposed) == FALSE

\* line 335: if not proposed_config
proposed_missing(proposed) == ~Truthy(proposed)

\* TrueSchemaDrivenAnalyzer.analyze_configuration_file after
\* initialize_schema_analysis returned ok: the dict it returns, result being
\* "success" for {"success": True, ...} and "error" for {"error": ...}
analyze_configuration_file(ok, is_initialized, leafrefs, current_file, proposed_file) ==
    LET configs == load_configuration_files(current_file, proposed_file)
        found == analyze_configuration_changes(configs[1], configs[2])
    IN  IF ~ok
        THEN [result |-> "error", error |-> "Schema analysis initialization failed",
              changes |-> <<>>, dependencies |-> <<>>]
        ELSE IF proposed_missing(configs[2])
        THEN [result |-> "error", error |-> "Failed to load configuration files",
              changes |-> <<>>, dependencies |-> <<>>]
        ELSE [result |-> "success", error |-> "",
              changes |-> found,
              dependencies |-> find_schema_driven_dependencies(is_initialized, leafrefs, found)]

\* line 388: true_analyzer.analyze_configuration_file, the configurations
\* read back from the files they were dumped to
AnalyzeConfigurationFile ==
    /\ pc = "diffed"
    /\ \E load_ok \in BOOLEAN, extracted \in LeafrefSeqs :
          LET ok == initialize_schema_analysis(load_ok, extracted)
              leafrefs == IF load_ok THEN extracted ELSE true_leafrefs
              returned == analyze_configuration_file(ok, initialized \/ ok, leafrefs,
                                                     current_config, proposed_config)
          IN  /\ true_leafrefs' = leafrefs
              /\ initialized' = (initialized \/ ok)
              /\ schema_result' = returned.result
              /\ IF returned.result = "success"
                 THEN /\ schema_changes' = returned.changes
                      /\ true_dependencies' = returned.dependencies
                 ELSE UNCHANGED <<schema_changes, true_dependencies>>
    /\ pc' = "analyzed"
    /\ UNCHANGED <<diff_vars, ident_vars, dependencies, impact_analysis, resolve_vars, cache_vars>>

\* lines 390-506: the Dependency list of the schema result; an exception of
\* a lookup ends analyze without a report
ConvertDependencies ==
    /\ pc = "analyzed"
    /\ IF schema_result # "success"
       THEN dependencies' = <<>> /\ pc' = "converted"
       ELSE IF \E i \in 1..Len(true_dependencies) :
                  target_lookup_raises(true_dependencies[i], current_config, proposed_config)
       THEN dependencies' = dependencies /\ pc' = "failed"
       ELSE /\ dependencies' =
                  converted_dependencies(true_dependencies, changes, current_config)
            /\ pc' = "converted"
    /\ UNCHANGED <<diff_vars, ident_vars, analyzer_vars, schema_result, impact_analysis, resolve_vars, cache_vars>>

\* line 514
AnalyzePerObjectImpact ==
    /\ pc = "converted"
    /\ impact_analysis' = _analyze_per_object_impact(changes, dependencies)
    /\ pc' = "done"
    /\ UNCHANGED <<diff_vars, ident_vars, analyzer_vars, schema_result, dependencies, resolve_vars, cache_vars>>

NextAnalyze ==
    \/ DiffConfigs
    \/ AnalyzeConfigurationFile
    \/ ConvertDependencies
    \/ AnalyzePerObjectImpact

SpecAnalyze == InitAnalyze /\ [][NextAnalyze]_vars

---------------------------------------------------------------------------
(* Properties of the impact report *)

ObjectImpacts == impact_analysis.object_impacts

\* the label of the group a changed path belongs to
LabelOf(path) == _extract_config_object_name(path)

ChangesOf(label) == {i \in 1..Len(changes) : LabelOf(changes[i].path) = label}

\* the named identifiers bracketed in a path
NamedIn(path) ==
    LET segs == Segments(path)
    IN  {BracketOf(segs[k]) : k \in {k \in 1..Len(segs) : Named(segs[k])}}

\* the named identifiers bracketed in the changed paths of a group
OwnIdentifiers(label) == UNION {NamedIn(changes[i].path) : i \in ChangesOf(label)}

\* q lists the identifiers of s, each once, and nothing else
Enumerates(q, s) ==
    /\ Len(q) = Cardinality(s)
    /\ \A id \in s : \E i \in 1..Len(q) : q[i] = id

\* every changed path has its group, which counts the changes of its label
ChangedObjectsPresent ==
    /\ \A i \in 1..Len(changes) :
          \E k \in 1..Len(ObjectImpacts) :
             ObjectImpacts[k].config_object = LabelOf(changes[i].path)
    /\ \A k \in 1..Len(ObjectImpacts) :
          /\ ObjectImpacts[k].change_count =
                Cardinality(ChangesOf(ObjectImpacts[k].config_object))
          /\ ObjectImpacts[k].change_count > 0
          /\ \A m \in 1..Len(ObjectImpacts) :
                ObjectImpacts[m].config_object = ObjectImpacts[k].config_object => m = k
    /\ impact_analysis.total_objects_changed = Len(ObjectImpacts)

NoIndex == ~initialized \/ true_leafrefs = <<>>

\* C5: with an empty or missing schema reference index the matcher returns
\* no dependency for any list of changes, and the run ends with a report
\* that has the group of every changed object, each with no dependency
C5_FallbackSafety ==
    NoIndex =>
        /\ \A chs \in ChangeSeqs \cup {schema_changes, changes} :
              find_schema_driven_dependencies(initialized, true_leafrefs, chs) = <<>>
        /\ pc # "failed"
        /\ pc \in {"converted", "done"} => dependencies = <<>>
        /\ pc = "done" =>
              /\ ChangedObjectsPresent
              /\ \A k \in 1..Len(ObjectImpacts) : ObjectImpacts[k].dependencies = <<>>
              /\ impact_analysis.total_objects_with_impacts = 0

\* the analyzer failed to initialize and the report holds several groups
C5_Witness ==
    /\ pc = "done"
    /\ ~initialized
    /\ schema_result = "error"
    /\ Len(changes) >= 3
    /\ Len(ObjectImpacts) >= 2
    /\ \E k \in 1..Len(ObjectImpacts) : ObjectImpacts[k].all_identifiers # <<>>

\* the group of a label
GroupOf(label) ==
    ObjectImpacts[CHOOSE k \in 1..Len(ObjectImpacts) : ObjectImpacts[k].config_object = label]

\* C8: every changed object stays visible: when no dependency matches, the
\* group of every change is in the report with its change count, an empty
\* dependencies list and the identifiers bracketed in its changed paths as
\* all_identifiers; a single change at
\* acl-sets/acl-set[USER_INBOUND_V4]/config/name with no matching edge
\* gives "Access Control Lists" with 1, [] and ["USER_INBOUND_V4"]
C8_EveryChangedObjectVisible ==
    (pc = "done" /\ true_dependencies = <<>>) =>
        /\ ChangedObjectsPresent
        /\ \A k \in 1..Len(ObjectImpacts) :
              /\ ObjectImpacts[k].dependencies = <<>>
              /\ Enumerates(ObjectImpacts[k].all_identifiers,
                            OwnIdentifiers(ObjectImpacts[k].config_object))
        /\ (/\ Len(changes) = 1
            /\ changes[1].path = "acl-sets/acl-set[USER_INBOUND_V4]/config/name")
           => /\ Len(ObjectImpacts) = 1
              /\ GroupOf("Access Control Lists").change_count = 1
              /\ GroupOf("Access Control Lists").dependencies = <<>>
              /\ GroupOf("Access Control Lists").all_identifiers = <<"USER_INBOUND_V4">>

\* what does hold of a run in which no dependency matched: every changed
\* object has its group and its count
C8_GroupsPresent == pc = "done" => ChangedObjectsPresent

---------------------------------------------------------------------------
(* The path resolution run: _get_object_at_path and                       *)
(* _extract_identifiers_from_object applied to a tree and a path, as in   *)
(* step 2 of _resolve_dependency_target_identifiers_from_current_config   *)

MaxResolveLen == 3

\* a tree with a mapping, scalars, a keyed list and a list of scalars
ResolveTree(as_value, vlan_list) ==
    DictV(<<"bgp", "vlans", "tags">>,
          <<DictV(<<"as", "name">>, <<as_value, StrV("core")>>),
            DictV(<<"vlan">>, <<vlan_list>>),
            ListV(<<StrV("name"), StrV("x")>>)>>)

Vlan(id, name) == DictV(<<"vlan-id", "name">>, <<IntV(id), StrV(name)>>)

TreePool ==
    {ResolveTree(a, l) :
        a \in {IntV("65001"), StrV("AS65001")},
        l \in {ListV(<<Vlan("10", "v10"), Vlan("20", "v20")>>), ListV(<<>>)}}

ResolveSegmentPool ==
    {"bgp", "oc-bgp:bgp", "as", "name", "or", "number", "vlans", "vlan",
     "vlan[v20]", "vlan[vlan-id=10]", "vlan[v99]", "tags"}

ResolvePathPool ==
    UNION {{Join(segs, "/") : segs \in [1..n -> ResolveSegmentPool]} : n \in 1..MaxResolveLen}

InitResolve ==
    /\ pc = "start"
    /\ current_config \in TreePool
    /\ config_path \in ResolvePathPool
    /\ proposed_config = DictV(<<>>, <<>>)
    /\ changes = <<>>
    /\ actual_identifier = ""
    /\ cli_identifier = ""
    /\ AnalyzerIdle /\ CliIdle /\ ResolveIdle /\ CacheIdle

\* main.py 906: target_object = _get_object_at_path(current_config, path);
\* an exception leaves the caller
GetObjectAtPath ==
    /\ pc = "start"
    /\ LET target_object == _get_object_at_path(current_config, config_path)
       IN  /\ target_obj' = target_object
           /\ pc' = IF target_object = RaiseV THEN "raised" ELSE "resolved"
    /\ UNCHANGED <<obj_identifiers, diff_vars, ident_vars, analyzer_vars, cli_vars, cache_vars>>

\* main.py 907-908: the identifiers of a truthy target_object
ExtractIdentifiersFromObject ==
    /\ pc = "resolved"
    /\ obj_identifiers' = IF Truthy(target_obj)
                          THEN _extract_identifiers_from_object(target_obj)
                          ELSE <<>>
    /\ pc' = "done"
    /\ UNCHANGED <<target_obj, diff_vars, ident_vars, analyzer_vars, cli_vars, cache_vars>>

NextResolve == GetObjectAtPath \/ ExtractIdentifiersFromObject

SpecResolve == InitResolve /\ [][NextResolve]_vars

---------------------------------------------------------------------------
(* Properties of the match predicate *)

\* the tokens of a change path, of the source path and of the target path of
\* a reference edge
ChangeTokens(path) == SeqSet(lower_parts(path))
SourceTokens(leafref) == SeqSet(lower_parts(leafref.source_path))
TargetTokens(leafref) == SeqSet(target_parts(leafref.target_path))

\* case (a): interface keywords on both sides
KeywordMatch(path, leafref) ==
    /\ \E token \in ChangeTokens(path) : token \in interface_keywords
    /\ \E token \in SourceTokens(leafref) \cup TargetTokens(leafref) :
          token \in interface_keywords

\* case (b): a token of the change path is a token of the edge
TokenMatch(path, leafref) ==
    \E token \in ChangeTokens(path) :
       token \in SourceTokens(leafref) \/ token \in TargetTokens(leafref)

\* the pair of the i-th change and the j-th leafref has a dependency record
HasRecord(i, j) ==
    \E k \in 1..Len(true_dependencies) :
       /\ true_dependencies[k].config_change_path = schema_changes[i].path
       /\ true_dependencies[k].affected_leafref_source = true_leafrefs[j].source_path
       /\ true_dependencies[k].affected_leafref_target = true_leafrefs[j].target_path

\* C20: a change and a reference edge match, and give a dependency record,
\* if and only if (a) both have an interface keyword among their tokens or
\* (b) a token of the change path is a token of the edge's source or target
\* path; a pair for which neither holds gives no record
C20_MatchPredicate ==
    (pc = "done" /\ initialized) =>
        \A i \in 1..Len(schema_changes) : \A j \in 1..Len(true_leafrefs) :
           /\ _schema_path_matches(schema_changes[i].path, true_leafrefs[j])
                 <=> (\/ KeywordMatch(schema_changes[i].path, true_leafrefs[j])
                      \/ TokenMatch(schema_changes[i].path, true_leafrefs[j]))
           /\ HasRecord(i, j)
                 <=> (\/ KeywordMatch(schema_changes[i].path, true_leafrefs[j])
                      \/ TokenMatch(schema_changes[i].path, true_leafrefs[j]))

\* a change matching one edge by the keywords alone and another by a shared
\* token alone, and a change matching neither edge
C20_Witness ==
    /\ pc = "done"
    /\ initialized
    /\ Len(schema_changes) = 2
    /\ Len(true_leafrefs) = 2
    /\ \E i, j \in 1..2 :
          /\ KeywordMatch(schema_changes[i].path, true_leafrefs[j])
          /\ ~TokenMatch(schema_changes[i].path, true_leafrefs[j])
          /\ HasRecord(i, j)
    /\ \E i, j \in 1..2 :
          /\ ~KeywordMatch(schema_changes[i].path, true_leafrefs[j])
          /\ TokenMatch(schema_changes[i].path, true_leafrefs[j])
          /\ HasRecord(i, j)
    /\ \E i, j \in 1..2 :
          /\ ~KeywordMatch(schema_changes[i].path, true_leafrefs[j])
          /\ ~TokenMatch(schema_changes[i].path, true_leafrefs[j])
          /\ ~HasRecord(i, j)

\* a segment without its module: prefix
Unprefixed(token) ==
    IF Contains(token, ":") THEN Split(token, ":")[Len(Split(token, ":"))] ELSE token

\* the segments that normalization removes
Uninteresting == {"config", "state", "interfaces-state"}

\* C21: both sides are normalized before matching: a change and an edge
\* that have no interface keywords on both sides and share no token but
\* config or state give no record, and a change with a segment module:x
\* gives a record with an edge that has the token x
C21_NormalizedMatch ==
    (pc = "done" /\ initialized) =>
        \A i \in 1..Len(schema_changes) : \A j \in 1..Len(true_leafrefs) :
           LET path == schema_changes[i].path
               edge == true_leafrefs[j]
               shared == ChangeTokens(path) \cap (SourceTokens(edge) \cup TargetTokens(edge))
           IN  /\ (~KeywordMatch(path, edge) /\ shared \subseteq Uninteresting)
                     => ~HasRecord(i, j)
               /\ (\E token \in ChangeTokens(path) :
                      /\ Contains(token, ":")
                      /\ Unprefixed(token) \in SourceTokens(edge) \cup TargetTokens(edge))
                     => HasRecord(i, j)

\* what does hold: the change path is lower-cased and split, nothing else;
\* a shared config or state token is a match like any other
C21_RawTokens ==
    (pc = "done" /\ initialized) =>
        \A i \in 1..Len(schema_changes) : \A j \in 1..Len(true_leafrefs) :
           (ChangeTokens(schema_changes[i].path)
               \cap (SourceTokens(true_leafrefs[j]) \cup TargetTokens(true_leafrefs[j])) # {})
              => HasRecord(i, j)

---------------------------------------------------------------------------
(* Properties of the path resolution *)

\* C11: path resolution never raises: for every tree and every path the run
\* ends with a result (empty when a segment is missing, when a scalar or a
\* list is reached before the last segment, or when no list element has the
\* requested key) and never with an exception
C11_NeverRaises == pc # "raised"

\* what does hold: a missing segment, or a list with no element of the
\* requested key, gives an empty result
C11_MissingIsEmpty ==
    (pc = "done" /\ ~Truthy(target_obj)) => obj_identifiers = <<>>

---------------------------------------------------------------------------
(* Properties of the groups of the report *)

\* the dependencies related to the changes of a group, in input order
RelatedDependencies(label) ==
    object_dependencies_of(object_changes_of(changes, label), dependencies)

\* the pair a group's dependency list is said to be deduplicated by
TargetPair(dep) == <<dep.target_path, dep.display_target>>

\* C12: in every group the dependency list is deduplicated by (target schema
\* path, resolved identifier): no two entries share the pair, every pair
\* among the group's related dependencies is kept, and the entry kept is the
\* first of its pair in input order
C12_DedupByTargetAndIdentifier ==
    pc = "done" =>
        \A k \in 1..Len(ObjectImpacts) :
           LET kept == ObjectImpacts[k].dependencies
               related == RelatedDependencies(ObjectImpacts[k].config_object)
           IN  /\ \A i, j \in 1..Len(kept) :
                     TargetPair(kept[i]) = TargetPair(kept[j]) => i = j
               /\ \A i \in 1..Len(related) :
                     \E j \in 1..Len(kept) : TargetPair(kept[j]) = TargetPair(related[i])
               /\ \A j \in 1..Len(kept) :
                     \E i \in 1..Len(related) :
                        /\ related[i] = kept[j]
                        /\ \A h \in 1..(i - 1) : TargetPair(related[h]) # TargetPair(kept[j])

\* what does hold: the list is deduplicated by (target_path, source_value),
\* the first entry of each such pair kept
C12_DedupByTargetAndSourceValue ==
    pc = "done" =>
        \A k \in 1..Len(ObjectImpacts) :
           LET kept == ObjectImpacts[k].dependencies
               related == RelatedDependencies(ObjectImpacts[k].config_object)
               SourcePair(dep) == <<dep.target_path, dep.source_value>>
           IN  /\ \A i, j \in 1..Len(kept) :
                     SourcePair(kept[i]) = SourcePair(kept[j]) => i = j
               /\ \A i \in 1..Len(related) :
                     \E j \in 1..Len(kept) : SourcePair(kept[j]) = SourcePair(related[i])
               /\ \A j \in 1..Len(kept) :
                     \E i \in 1..Len(related) :
                        /\ related[i] = kept[j]
                        /\ \A h \in 1..(i - 1) : SourcePair(related[h]) # SourcePair(kept[j])

\* the identifier is bracketed, and named, in segment sg of change c of the group
OccursAt(label, id, c, sg) ==
    /\ c \in ChangesOf(label)
    /\ sg \in 1..Len(Segments(changes[c].path))
    /\ Named(Segments(changes[c].path)[sg])
    /\ BracketOf(Segments(changes[c].path)[sg]) = id

\* the first occurrence of id1 in the group's changed paths is before every
\* occurrence of id2
OccursBefore(label, id1, id2) ==
    \E c \in ChangesOf(label) : \E sg \in 1..Len(Segments(changes[c].path)) :
       /\ OccursAt(label, id1, c, sg)
       /\ \A c2 \in ChangesOf(label) : \A sg2 \in 1..Len(Segments(changes[c2].path)) :
             OccursAt(label, id2, c2, sg2) => (c < c2 \/ (c = c2 /\ sg < sg2))

\* the identifier is the m-th one the d-th related dependency resolves to
ResolvedAt(related, id, d, m) ==
    /\ d \in 1..Len(related)
    /\ m \in 1..Len(resolved_identifiers(related[d]))
    /\ resolved_identifiers(related[d])[m] = id

\* the first dependency resolving id1 is before every one resolving id2
ResolvedBefore(related, id1, id2) ==
    \E d \in 1..Len(related) : \E m \in 1..Len(resolved_identifiers(related[d])) :
       /\ ResolvedAt(related, id1, d, m)
       /\ \A d2 \in 1..Len(related) : \A m2 \in 1..Len(resolved_identifiers(related[d2])) :
             ResolvedAt(related, id2, d2, m2) => (d < d2 \/ (d = d2 /\ m < m2))

\* the identifiers the related dependencies of a group resolve to
ResolvedIdentifiers(related) ==
    UNION {{resolved_identifiers(related[d])[m] :
               m \in 1..Len(resolved_identifiers(related[d]))} : d \in 1..Len(related)}

---------------------------------------------------------------------------
(* The grouping run: _analyze_per_object_impact applied to the changes of *)
(* a diff over sections of many names, with no dependencies               *)

MaxGroupChanges == 3

GroupPathPool ==
    {"openconfig-network-instance:network-instances/network-instance[default]/protocols",
     "openconfig-acl:acl/acl-sets/acl-set[GUEST]",
     "acl-sets/acl-set[USER_INBOUND_V4]/config/name",
     "vlans/vlan[10]/config/name",
     "openconfig-interfaces:interfaces/interface[eth1]/config/mtu",
     "routing-policy/policy[P1]",
     "oc-sys:system/ntp",
     "system/hostname"}

GroupChanges ==
    UNION {[1..n -> {ConfigChange(path, "modified", StrV("old"), StrV("new")) :
                        path \in GroupPathPool}] : n \in 1..MaxGroupChanges}

InitGroup ==
    /\ pc = "converted"
    /\ changes \in GroupChanges
    /\ current_config = DictV(<<>>, <<>>)
    /\ proposed_config = DictV(<<>>, <<>>)
    /\ schema_result = "error"
    /\ dependencies = <<>>
    /\ impact_analysis = <<>>
    /\ IdentIdle /\ AnalyzerIdle /\ ResolveIdle /\ CacheIdle

NextGroup == AnalyzePerObjectImpact

SpecGroup == InitGroup /\ [][NextGroup]_vars

\* the top-level segment of a path, its module prefix stripped
TopSegment(path) ==
    LET top == Segments(path)[1]
        colon == Find(top, ":")
        rest == Slice(top, colon + 1, Len(top))
    IN  IF colon = -1 THEN top
        ELSE IF Find(rest, ":") = -1 THEN rest
        ELSE Slice(rest, 0, Find(rest, ":"))

\* the label of a top-level segment
SegmentLabel(seg) ==
    IF Contains(seg, "network-instance") THEN "BGP Configuration"
    ELSE IF Contains(seg, "acl") THEN "Access Control Lists"
    ELSE IF Contains(seg, "vlan") THEN "VLAN Configuration"
    ELSE IF Contains(seg, "interface") THEN "Interface Configuration"
    ELSE Title(Replace(seg, "-", " "))

RECURSIVE SumOfCounts(_)
\* the change_counts of the first k groups, added up
SumOfCounts(k) ==
    IF k = 0 THEN 0 ELSE SumOfCounts(k - 1) + ObjectImpacts[k].change_count

\* C14: every change is in exactly one group, the one labelled by its
\* top-level segment with the module prefix stripped; the change_count of a
\* group is the number of changes of its label, and the counts add up to the
\* number of changes
C14_Grouping ==
    pc = "done" =>
        /\ \A i \in 1..Len(changes) :
              Cardinality({k \in 1..Len(ObjectImpacts) :
                              ObjectImpacts[k].config_object =
                                 SegmentLabel(TopSegment(changes[i].path))}) = 1
        /\ \A k \in 1..Len(ObjectImpacts) :
              ObjectImpacts[k].change_count =
                 Cardinality({i \in 1..Len(changes) :
                                 SegmentLabel(TopSegment(changes[i].path)) =
                                    ObjectImpacts[k].config_object})
        /\ SumOfCounts(Len(ObjectImpacts)) = Len(changes)
        /\ impact_analysis.total_objects_changed = Len(ObjectImpacts)

\* three changes in two groups: two prefixed and unprefixed paths of one
\* section share a title-cased label, the third has a well-known label
C14_Witness ==
    /\ pc = "done"
    /\ Len(changes) = 3
    /\ Len(ObjectImpacts) = 2
    /\ \E k \in 1..2 :
          /\ ObjectImpacts[k].config_object = "System"
          /\ ObjectImpacts[k].change_count = 2
    /\ \E k \in 1..2 : ObjectImpacts[k].config_object = "BGP Configuration"

---------------------------------------------------------------------------
(* DynamicDependencyAnalyzer: the reference map of a data model and its    *)
(* cache. A schema node is a record [type, path, children]: type is        *)
(* "none" for a node without a type, path the leafref path of its type or  *)
(* "", children the list of [name, node] in the order of children.items(), *)
(* raises what cannot be done with the node: "type" when reading its type  *)
(* raises, "children" when enumerating its children raises, "none"         *)

SchemaNode(type, path, children) ==
    [type |-> type, path |-> path, children |-> children, raises |-> "none"]
FailingNode(raises, type, path, children) ==
    [type |-> type, path |-> path, children |-> children, raises |-> raises]
Child(name, node) == [name |-> name, node |-> node]
Leaf(type, path) == SchemaNode(type, path, <<>>)

\* lines 128-139: the entry a node with a leafref type adds at current_path;
\* nothing is added when reading the type raises
with_reference(schema_node, current_path, reference_map) ==
    IF schema_node.raises # "type" /\ schema_node.type # "none" /\ schema_node.path # ""
    THEN DictSet(reference_map, current_path,
                 Append(GetOr(reference_map, current_path, <<>>),
                        [type |-> "leafref",
                         target_path |-> schema_node.path,
                         source_path |-> current_path]))
    ELSE reference_map

\* line 146: child_path
child_path_of(current_path, child_name) ==
    IF current_path # "" THEN current_path \o "/" \o child_name ELSE child_name

RECURSIVE first_failing(_, _)
\* the place of the first child from the i-th on that raises, else the last
first_failing(children, i) ==
    IF i >= Len(children) THEN Len(children)
    ELSE IF children[i].node.raises # "none" THEN i
    ELSE first_failing(children, i + 1)

\* mutant: the children of a node of leafref type are not visited
child_calls_mut_leaf(schema_node, current_path) ==
    IF schema_node.raises # "none" \/ schema_node.path # "" THEN <<>>
    ELSE [i \in 1..Len(schema_node.children) |->
             [node |-> schema_node.children[i].node,
              path |-> child_path_of(current_path, schema_node.children[i].name)]]

\* mutant: the exception of a child ends the loop over its parent's children
child_calls_mut_abort(schema_node, current_path) ==
    IF schema_node.raises # "none" THEN <<>>
    ELSE [i \in 1..first_failing(schema_node.children, 1) |->
             [node |-> schema_node.children[i].node,
              path |-> child_path_of(current_path, schema_node.children[i].name)]]

\* lines 144-147: the calls for the children of a node, in order; none when
\* the exception of line 128 or of line 145 has left the try block (148)
child_calls(schema_node, current_path) ==
    IF schema_node.raises # "none" THEN <<>>
    ELSE [i \in 1..Len(schema_node.children) |->
             [node |-> schema_node.children[i].node,
              path |-> child_path_of(current_path, schema_node.children[i].name)]]

RECURSIVE _traverse_schema_for_references(_, _, _)
RECURSIVE traverse_children(_, _, _)
\* lines 144-147: the loop over the calls for the children from the i-th on
traverse_children(calls, reference_map, i) ==
    IF i > Len(calls) THEN reference_map
    ELSE traverse_children(
             calls,
             _traverse_schema_for_references(calls[i].node, calls[i].path, reference_map),
             i + 1)

\* DynamicDependencyAnalyzer._traverse_schema_for_references run to its end:
\* reference_map as the call leaves it
_traverse_schema_for_references(schema_node, current_path, reference_map) ==
    traverse_children(child_calls(schema_node, current_path),
                      with_reference(schema_node, current_path, reference_map), 1)

\* the data models: id is id(data_model), readable whether get_schema_node
\* returns, root the schema it returns
DataModel(id, readable, root) == [id |-> id, readable |-> readable, root |-> root]

InterfacesSchema ==
    SchemaNode("none", "",
       <<Child("interfaces",
            SchemaNode("none", "",
               <<Child("interface",
                    SchemaNode("none", "",
                       <<Child("name", Leaf("leafref", "../config/name")),
                         Child("config",
                            SchemaNode("none", "", <<Child("name", Leaf("string", ""))>>))>>))>>)),
         Child("acl",
            SchemaNode("none", "",
               <<Child("set-name", Leaf("leafref", "/acl/acl-sets/acl-set/name"))>>))>>)

VlansSchema ==
    SchemaNode("none", "", <<Child("vlan-id", Leaf("leafref", "../config/vlan-id"))>>)

DataModels ==
    {DataModel("openconfig", TRUE, InterfacesSchema),
     DataModel("vlans", TRUE, VlansSchema),
     DataModel("broken", FALSE, SchemaNode("none", "", <<>>))}

ModelOf(id) == CHOOSE m \in DataModels : m.id = id

Threads == {1, 2}
MaxCalls == 2

\* a thread outside _build_reference_map
NoCall(calls) ==
    [pc |-> "idle", data_model |-> "", reference_map |-> NoneV,
     pending |-> <<>>, result |-> NoneV, calls |-> calls]

\* mutant: the cache never consulted
cache_hit_mut_never(cache, cache_key) == FALSE

\* line 98: cache_key in self._reference_cache
cache_hit(cache, cache_key) == HasKey(cache, cache_key)

\* mutant: the map stored while nodes are still to be traversed
traversal_done_mut_early(pending) == TRUE

\* lines 107-109: the traversal has returned
traversal_done(pending) == pending = <<>>

\* the state a call of _build_reference_map leaves alone
outside_cache == <<pc, diff_vars, ident_vars, analyzer_vars, cli_vars, resolve_vars, schema_root>>

\* DynamicDependencyAnalyzer.__init__
InitCache ==
    /\ pc = "constructed"
    /\ _reference_cache = DictV(<<>>, <<>>)
    /\ build_calls = [t \in Threads |-> NoCall(0)]
    /\ traversals = [id \in {m.id : m \in DataModels} |-> 0]
    /\ schema_root = NoneV
    /\ DiffIdle /\ IdentIdle /\ AnalyzerIdle /\ CliIdle /\ ResolveIdle

\* line 91: a thread calls _build_reference_map(data_model)
Call(t) ==
    /\ build_calls[t].pc \in {"idle", "returned"}
    /\ build_calls[t].calls < MaxCalls
    /\ \E m \in DataModels :
          build_calls' = [build_calls EXCEPT ![t] =
                             [NoCall(build_calls[t].calls) EXCEPT
                                 !.pc = "check", !.data_model = m.id]]
    /\ UNCHANGED <<outside_cache, _reference_cache, traversals>>

\* lines 97-98 and 101: the test of the cache; on a miss reference_map = {}
CheckCache(t) ==
    /\ build_calls[t].pc = "check"
    /\ build_calls' = [build_calls EXCEPT ![t] =
          IF cache_hit(_reference_cache, build_calls[t].data_model)
          THEN [build_calls[t] EXCEPT !.pc = "hit"]
          ELSE [build_calls[t] EXCEPT !.pc = "miss", !.reference_map = DictV(<<>>, <<>>)]]
    /\ UNCHANGED <<outside_cache, _reference_cache, traversals>>

\* line 99: return self._reference_cache[cache_key]
ReturnCached(t) ==
    /\ build_calls[t].pc = "hit"
    /\ build_calls' = [build_calls EXCEPT ![t] =
          [build_calls[t] EXCEPT
              !.pc = "returned",
              !.result = Get(_reference_cache, build_calls[t].data_model),
              !.calls = @ + 1]]
    /\ UNCHANGED <<outside_cache, _reference_cache, traversals>>

\* lines 103-108: get_schema_node returns the root, which the traversal
\* starts from, or raises
GetSchemaNode(t) ==
    /\ build_calls[t].pc = "miss"
    /\ LET data_model == ModelOf(build_calls[t].data_model)
       IN  IF data_model.readable
           THEN /\ build_calls' = [build_calls EXCEPT ![t] =
                      [build_calls[t] EXCEPT
                          !.pc = "traverse",
                          !.pending = <<[node |-> data_model.root, path |-> ""]>>]]
                /\ traversals' = [traversals EXCEPT ![data_model.id] = @ + 1]
           ELSE /\ build_calls' = [build_calls EXCEPT ![t] =
                      [build_calls[t] EXCEPT !.pc = "except"]]
                /\ UNCHANGED traversals
    /\ UNCHANGED <<outside_cache, _reference_cache>>

\* lines 118-147: _traverse_schema_for_references on the next node; the
\* calls for its children come before the rest of the pending ones
TraverseSchemaForReferences(t) ==
    /\ build_calls[t].pc = "traverse"
    /\ build_calls[t].pending # <<>>
    /\ LET call == Head(build_calls[t].pending)
       IN  build_calls' = [build_calls EXCEPT ![t] =
              [build_calls[t] EXCEPT
                  !.reference_map = with_reference(call.node, call.path, @),
                  !.pending = child_calls(call.node, call.path) \o Tail(@)]]
    /\ UNCHANGED <<outside_cache, _reference_cache, traversals>>

\* line 110: self._reference_cache[cache_key] = reference_map
StoreInCache(t) ==
    /\ build_calls[t].pc = "traverse"
    /\ traversal_done(build_calls[t].pending)
    /\ _reference_cache' = DictSet(_reference_cache, build_calls[t].data_model,
                                   build_calls[t].reference_map)
    /\ build_calls' = [build_calls EXCEPT ![t] = [build_calls[t] EXCEPT !.pc = "built"]]
    /\ UNCHANGED <<outside_cache, traversals>>

\* line 116: return reference_map, after the store or after the except
ReturnBuilt(t) ==
    /\ build_calls[t].pc \in {"built", "except"}
    /\ build_calls' = [build_calls EXCEPT ![t] =
          [build_calls[t] EXCEPT
              !.pc = "returned",
              !.result = build_calls[t].reference_map,
              !.calls = @ + 1]]
    /\ UNCHANGED <<outside_cache, _reference_cache, traversals>>

NextCache ==
    \/ \E t \in Threads : Call(t)
    \/ \E t \in Threads : CheckCache(t)
    \/ \E t \in Threads : ReturnCached(t)
    \/ \E t \in Threads : GetSchemaNode(t)
    \/ \E t \in Threads : TraverseSchemaForReferences(t)
    \/ \E t \in Threads : StoreInCache(t)
    \/ \E t \in Threads : ReturnBuilt(t)

SpecCache == InitCache /\ [][NextCache]_vars

---------------------------------------------------------------------------
(* Properties of the reference map cache *)

CachedModels == {id \in DOMAIN traversals : HasKey(_reference_cache, id)}

\* one step keeps every cache entry, lets a call that finds its data model
\* in the cache go on only to return the cached map, and starts a traversal
\* only in a call that missed the cache
MemoizedStep ==
    /\ \A id \in CachedModels :
          /\ HasKey(_reference_cache', id)
          /\ Get(_reference_cache', id) = Get(_reference_cache, id)
    /\ \A t \in Threads :
          LET call == build_calls[t]
              after == build_calls'[t]
          IN  /\ (call.pc = "check" /\ call.data_model \in CachedModels)
                    => after.pc \in {"check", "hit"}
              /\ (after.pc = "miss" /\ call.pc # "miss")
                    => call.pc = "check" /\ call.data_model \notin CachedModels
              /\ call.pc = "hit"
                    => \/ after = call
                       \/ /\ after.pc = "returned"
                          /\ after.result = Get(_reference_cache, call.data_model)
    /\ \A id \in DOMAIN traversals :
          traversals'[id] # traversals[id]
             => \E t \in Threads :
                   /\ build_calls[t].pc = "miss"
                   /\ build_calls[t].data_model = id

\* C15: the reference map is memoized by data model: once a build has
\* stored the map of a model, every later call for that model returns the
\* cached map without traversing the schema, and no step removes or changes
\* a cache entry
C15_Memoized == [][MemoizedStep]_vars

\* a call made after the build of its model returned the cached map, the
\* schema having been traversed once
C15_Witness ==
    \E t \in Threads :
       /\ build_calls[t].pc = "returned"
       /\ build_calls[t].reference_map = NoneV
       /\ build_calls[t].calls = MaxCalls
       /\ build_calls[t].data_model = "openconfig"
       /\ build_calls[t].result = Get(_reference_cache, "openconfig")
       /\ Len(build_calls[t].result.keys) = 2
       /\ traversals["openconfig"] = 1

\* the reference map of a data model whose schema can be read
CompleteMap(id) ==
    _traverse_schema_for_references(ModelOf(id).root, "", DictV(<<>>, <<>>))

\* C19: under every interleaving of the calls of two threads on one cache,
\* the cache holds for a data model nothing but its complete reference map,
\* and every call on a model whose schema can be read returns the complete
\* map
C19_ParallelBuildsSafe ==
    /\ \A id \in CachedModels : Get(_reference_cache, id) = CompleteMap(id)
    /\ \A t \in Threads :
          (build_calls[t].pc = "returned" /\ ModelOf(build_calls[t].data_model).readable)
             => build_calls[t].result = CompleteMap(build_calls[t].data_model)

\* both threads missed the cache for the same model, traversed its schema at
\* the same time and returned, one of them still traversing when the other
\* had stored its map
C19_Witness ==
    /\ traversals["openconfig"] = 2
    /\ \A t \in Threads :
          /\ build_calls[t].pc = "returned"
          /\ build_calls[t].calls = 1
          /\ build_calls[t].data_model = "openconfig"
          /\ Len(build_calls[t].result.keys) = 2
    /\ "openconfig" \in CachedModels

---------------------------------------------------------------------------
(* Properties of the outcome of analyze_configuration_file *)

\* analyze_configuration_file has returned
Analyzed == pc \in {"analyzed", "converted", "done", "failed"}

\* C16: an unavailable schema is not fatal: when the model cannot be loaded
\* or yields no leafref, the analysis of a non-empty proposed configuration
\* returns a success with the detected changes and no dependency
C16_UnavailableSchemaNotFatal ==
    (Analyzed /\ NoIndex /\ Truthy(proposed_config)) =>
        /\ schema_result = "success"
        /\ schema_changes = analyze_configuration_changes(current_config, proposed_config)
        /\ true_dependencies = <<>>

\* what does hold: with an unavailable schema analyze_configuration_file
\* returns an error and analyze goes on with no dependencies
C16_ErrorAndNoDependencies ==
    (Analyzed /\ NoIndex) =>
        /\ schema_result = "error"
        /\ schema_changes = <<>>
        /\ pc \in {"converted", "done"} => dependencies = <<>>

---------------------------------------------------------------------------
(* The analyzer run: analyze_configuration_file called on a current and a *)
(* proposed file, either of which may be missing, the proposed one empty  *)

CurrentFiles == CurrentPool \cup {MissingFile}
ProposedFiles == ProposedPool \cup {DictV(<<>>, <<>>), MissingFile}

InitFiles ==
    /\ pc = "start"
    /\ current_config \in CurrentFiles
    /\ proposed_config \in ProposedFiles
    /\ changes = <<>>
    /\ IdentIdle /\ AnalyzerIdle /\ CliIdle /\ ResolveIdle /\ CacheIdle

\* true_schema_analyzer.py 318-353, called on the two files
AnalyzeFiles ==
    /\ pc = "start"
    /\ \E load_ok \in BOOLEAN, extracted \in LeafrefSeqs :
          LET ok == initialize_schema_analysis(load_ok, extracted)
              leafrefs == IF load_ok THEN extracted ELSE true_leafrefs
              returned == analyze_configuration_file(ok, initialized \/ ok, leafrefs,
                                                     current_config, proposed_config)
          IN  /\ true_leafrefs' = leafrefs
              /\ initialized' = (initialized \/ ok)
              /\ schema_result' = returned.result
              /\ schema_changes' = returned.changes
              /\ true_dependencies' = returned.dependencies
    /\ pc' = "analyzed"
    /\ UNCHANGED <<diff_vars, ident_vars, dependencies, impact_analysis, resolve_vars, cache_vars>>

NextFiles == AnalyzeFiles

SpecFiles == InitFiles /\ [][NextFiles]_vars

\* the proposed configuration is missing or empty
ProposedAbsent == proposed_config = MissingFile \/ proposed_config = DictV(<<>>, <<>>)

\* C17: a missing or empty proposed configuration gives an error outcome
\* with no changes and no dependencies; an analysis that finds no dependency
\* gives a success outcome with an empty dependency list; a success is never
\* returned for an absent proposed configuration, so the two differ
C17_AbsentProposedIsFailure ==
    pc = "analyzed" =>
        /\ ProposedAbsent =>
              /\ schema_result = "error"
              /\ schema_changes = <<>>
              /\ true_dependencies = <<>>
        /\ (~ProposedAbsent /\ initialized) => schema_result = "success"
        /\ schema_result = "success" => ~ProposedAbsent
        /\ schema_result \in {"success", "error"}

\* the schema is loaded and the analysis of an empty proposed configuration
\* against a current one has returned its error
C17_Witness ==
    /\ pc = "analyzed"
    /\ initialized
    /\ current_config \in CurrentPool
    /\ proposed_config = DictV(<<>>, <<>>)
    /\ schema_result = "error"

\* the other outcome: a success that found changes and no dependency
C17_EmptySuccess ==
    /\ pc = "analyzed"
    /\ schema_result = "success"
    /\ schema_changes # <<>>
    /\ true_dependencies = <<>>

---------------------------------------------------------------------------
(* Properties of the paths of the diff *)

\* the segments of the changed paths that address a list element
ElementSegments ==
    UNION {{Segments(changes[i].path)[k] :
               k \in {k \in 1..Len(Segments(changes[i].path)) :
                         Contains(Segments(changes[i].path)[k], "[")}} :
           i \in 1..Len(changes)}

\* C18: in every path of the diff a segment addressing a list element is
\* segment[key], and key is never a pure-digit sequence number
C18_NoNumericKey ==
    pc = "done" =>
        \A seg \in ElementSegments :
           /\ BracketOf(seg) # ""
           /\ ~IsDigit(BracketOf(seg))

---------------------------------------------------------------------------
(* The target resolution run:                                              *)
(* _resolve_dependency_target_identifiers_from_current_config applied to   *)
(* one Dependency and a current tree whose interfaces apply access lists   *)

EgressAcl(set_name) ==
    DictV(<<"egress-acl-sets">>,
          <<DictV(<<"egress-acl-set">>, <<ListV(<<DictV(<<"set-name">>, <<StrV(set_name)>>)>>)>>)>>)

\* the interface objects of the trees: ingress, egress, another ACL, no ACL
\* block, a second object named eth1, an object without a name
FallbackInterfacePool ==
    {InterfaceWithAcl("eth1", "up", "USER_INBOUND_V4"),
     DictV(<<"name", "openconfig-acl:acl">>, <<StrV("eth2"), EgressAcl("USER_INBOUND_V4")>>),
     InterfaceWithAcl("eth3", "up", "GUEST"),
     Interface("eth4", "up"),
     DictV(<<"name", "openconfig-acl:acl">>, <<StrV("eth1"), EgressAcl("USER_INBOUND_V4")>>),
     DictV(<<"openconfig-acl:acl">>, <<IngressAcl("USER_INBOUND_V4")>>)}

MaxInterfaces == 2

FallbackSections(interfaces) ==
    DictV(<<"acl-sets", "system", "bgp", "openconfig-interfaces:interfaces">>,
          <<AclSets(<<AclSet("USER_INBOUND_V4", "USER_INBOUND_V4", "in")>>),
            DictV(<<"name">>, <<StrV("core")>>), Bgp("65001"), Interfaces(interfaces)>>)

FallbackTreePool ==
    {FallbackSections(interfaces) :
        interfaces \in UNION {[1..n -> FallbackInterfacePool] : n \in 0..MaxInterfaces}}
    \cup {DictV(<<"acl-sets", "system">>,
                <<AclSets(<<AclSet("USER_INBOUND_V4", "USER_INBOUND_V4", "in")>>),
                  DictV(<<"name">>, <<StrV("core")>>)>>)}

\* a keyed target, a target the tree holds with a name, one it holds without
\* identifiers, a relative leafref target, one that runs into a number
FallbackTargetPool ==
    {"acl-sets/acl-set[USER_INBOUND_V4]", "system", "bgp", "../config/name",
     "bgp/global/as/x"}

FallbackSourcePool ==
    {"openconfig-acl:acl/acl-sets/acl-set[USER_INBOUND_V4]", "ACL/acl-sets", "vlans/vlan[10]"}

FallbackValuePool == {"USER_INBOUND_V4", "GUEST", ""}

InitFallback ==
    /\ pc = "start"
    /\ current_config \in FallbackTreePool
    /\ \E tp \in FallbackTargetPool, sp \in FallbackSourcePool, sv \in FallbackValuePool :
          dependencies = <<Dependency(sp, tp, "schema_leafref", sv, tp, "", sv, "", "")>>
    /\ proposed_config = DictV(<<>>, <<>>)
    /\ changes = <<>>
    /\ schema_result = ""
    /\ impact_analysis = <<>>
    /\ IdentIdle /\ AnalyzerIdle /\ ResolveIdle /\ CacheIdle

\* main.py 892-926: the identifiers of the dependency's target; the lookup
\* of step 2 may raise, and then nothing is returned
ResolveTargetIdentifiers ==
    /\ pc = "start"
    /\ LET dep == dependencies[1]
           raises == /\ _extract_identifier_from_path(dep.target_path) = ""
                     /\ _get_object_at_path(current_config, dep.target_path) = RaiseV
       IN  IF raises
           THEN pc' = "raised" /\ obj_identifiers' = obj_identifiers
           ELSE /\ pc' = "resolved"
                /\ obj_identifiers' =
                      _resolve_dependency_target_identifiers_from_current_config(
                          dep.target_path, dep.source_path, dep.source_value, current_config)
    /\ UNCHANGED <<target_obj, diff_vars, ident_vars, analyzer_vars, cli_vars, cache_vars>>

NextFallback == ResolveTargetIdentifiers

SpecFallback == InitFallback /\ [][NextFallback]_vars

---------------------------------------------------------------------------
(* Properties of the access-list fallback *)

\* whether steps 1 and 2 of the resolver gave an identifier
ResolvedByPathOrTree(dep, config) ==
    \/ _extract_identifier_from_path(dep.target_path) # ""
    \/ LET obj == _get_object_at_path(config, dep.target_path)
       IN  Truthy(obj) /\ _extract_identifiers_from_object(obj) # <<>>

\* whether a direction of the ACL block of an interface names the ACL
AppliedIn(iface, sets_key, set_key, acl_name) ==
    /\ HasKey(iface, "openconfig-acl:acl")
    /\ HasKey(Get(iface, "openconfig-acl:acl"), sets_key)
    /\ HasKey(Get(Get(iface, "openconfig-acl:acl"), sets_key), set_key)
    /\ \E acl_set \in SeqSet(Get(Get(Get(iface, "openconfig-acl:acl"), sets_key), set_key).items) :
          HasKey(acl_set, "set-name") /\ Get(acl_set, "set-name") = StrV(acl_name)

\* the names of the interfaces of the tree that apply the ACL
AppliedOn(config, acl_name) ==
    IF ~HasKey(config, "openconfig-interfaces:interfaces") THEN {}
    ELSE {Get(iface, "name").v :
            iface \in {i \in SeqSet(Get(Get(config, "openconfig-interfaces:interfaces"),
                                        "interface").items) :
                          /\ HasKey(i, "name")
                          /\ \/ AppliedIn(i, "ingress-acl-sets", "ingress-acl-set", acl_name)
                             \/ AppliedIn(i, "egress-acl-sets", "egress-acl-set", acl_name)}}

FallbackFires(dep, config) ==
    ~ResolvedByPathOrTree(dep, config) /\ Contains(Lower(dep.source_path), "acl")

\* C22: the access-list fallback contributes only when neither the target
\* path nor the tree lookup gave an identifier and the source path mentions
\* an access list; what the resolver then returns is exactly the names of the
\* interfaces whose ingress or egress ACL set names dep.source_value, each
\* once, and nothing when no interface applies it. When a step resolved, the
\* result holds no interface name of the fallback; when the source path does
\* not mention an access list, the result is empty.
C22_AclFallback ==
    pc = "resolved" =>
        LET dep == dependencies[1]
            applied == AppliedOn(current_config, dep.source_value)
        IN  IF FallbackFires(dep, current_config)
            THEN /\ SeqSet(obj_identifiers) = applied
                 /\ Len(obj_identifiers) = Cardinality(applied)
            ELSE IF ResolvedByPathOrTree(dep, current_config)
            THEN /\ obj_identifiers # <<>>
                 /\ SeqSet(obj_identifiers) \cap {"eth1", "eth2", "eth3", "eth4"} = {}
            ELSE obj_identifiers = <<>>

\* the fallback fired on a tree with two objects named eth1, one applying the
\* ACL at ingress and one at egress: eth1 is returned once
C22_Witness ==
    /\ pc = "resolved"
    /\ FallbackFires(dependencies[1], current_config)
    /\ obj_identifiers = <<"eth1">>
    /\ LET interfaces == Get(Get(current_config, "openconfig-interfaces:interfaces"), "interface").items
       IN  /\ Len(interfaces) = 2
           /\ \A i \in 1..2 : GetOr(interfaces[i], "name", NoneV) = StrV("eth1")
           /\ AppliedIn(interfaces[1], "ingress-acl-sets", "ingress-acl-set", "USER_INBOUND_V4")
           /\ AppliedIn(interfaces[2], "egress-acl-sets", "egress-acl-set", "USER_INBOUND_V4")

\* the fallback fired and no interface applies the ACL
C22_NoneApplies ==
    /\ pc = "resolved"
    /\ FallbackFires(dependencies[1], current_config)
    /\ dependencies[1].source_value = "GUEST"
    /\ obj_identifiers = <<>>

---------------------------------------------------------------------------
(* WorkingYangsonLeafrefExtractor: the leafrefs of the loaded schema. The  *)
(* nodes are the schema nodes above; a type is a LeafrefType when it is    *)
(* "leafref", and data_children() gives the children in order              *)

\* yangson_extractor.py 198-213: the record a node of leafref type appends;
\* nothing is appended when reading the type raises
with_leafref(node, path, leafrefs) ==
    IF node.raises # "type" /\ node.type = "leafref"
    THEN Append(leafrefs, Leafref(path, IF node.path # "" THEN node.path ELSE "unknown", ""))
    ELSE leafrefs

\* lines 221-227: the calls for the children that have a name, in order; none
\* when line 198 has raised (231) or data_children() raises (228)
data_children_calls(node, path) ==
    IF node.raises # "none" THEN <<>>
    ELSE LET named == SelectSeq(node.children, LAMBDA child : child.name # "")
         IN  [i \in 1..Len(named) |->
                 [node |-> named[i].node,
                  path |-> IF path # "" THEN path \o "/" \o named[i].name
                           ELSE named[i].name]]

RECURSIVE _comprehensive_leafref_search(_, _, _)
RECURSIVE search_children(_, _, _)
\* lines 223-227: the loop over the calls for the children from the i-th on
search_children(calls, leafrefs, i) ==
    IF i > Len(calls) THEN leafrefs
    ELSE search_children(
             calls,
             _comprehensive_leafref_search(calls[i].node, calls[i].path, leafrefs),
             i + 1)

\* WorkingYangsonLeafrefExtractor._comprehensive_leafref_search run to its
\* end: leafrefs as the call leaves it
_comprehensive_leafref_search(node, path, leafrefs) ==
    search_children(data_children_calls(node, path), with_leafref(node, path, leafrefs), 1)

\* WorkingYangsonLeafrefExtractor.extract_all_leafrefs; NoneV: no DataModel
extract_all_leafrefs(schema) ==
    IF schema = NoneV THEN <<>> ELSE _comprehensive_leafref_search(schema, "", <<>>)

---------------------------------------------------------------------------
(* The build run: the reference map and the leafrefs of one schema, whose  *)
(* nodes may raise when their type is read or their children enumerated    *)

SchemaLeafPool ==
    {Leaf("string", ""),
     Leaf("leafref", "../config/name"),
     FailingNode("type", "leafref", "../config/name", <<>>)}

\* a container, a node of leafref type, a node whose type cannot be read, a
\* node of leafref type whose children cannot be enumerated
SubtreePool ==
    UNION {{SchemaNode("none", "", children),
            SchemaNode("leafref", "/acl/acl-sets/acl-set/name", children),
            FailingNode("type", "none", "", children),
            FailingNode("children", "leafref", "/acl/acl-sets/acl-set/name", children)} :
           children \in {<<Child("name", first), Child("id", second)>> :
                            first \in SchemaLeafPool, second \in SchemaLeafPool}}

SchemaPool ==
    {SchemaNode("none", "", <<Child("interface", first), Child("acl", second)>>) :
        first \in SubtreePool, second \in SubtreePool}

SchemaId == "openconfig"

InitBuild ==
    /\ pc = "start"
    /\ schema_root \in SchemaPool
    /\ _reference_cache = DictV(<<>>, <<>>)
    /\ build_calls = <<>>
    /\ traversals = <<>>
    /\ DiffIdle /\ IdentIdle /\ AnalyzerIdle /\ CliIdle /\ ResolveIdle

\* dynamic_dependency_analyzer.py 91-116: _build_reference_map of a data
\* model that is not in the cache and whose get_schema_node returns
BuildReferenceMap ==
    /\ pc = "start"
    /\ ~cache_hit(_reference_cache, SchemaId)
    /\ _reference_cache' =
          DictSet(_reference_cache, SchemaId,
                  _traverse_schema_for_references(schema_root, "", DictV(<<>>, <<>>)))
    /\ pc' = "built"
    /\ UNCHANGED <<diff_vars, ident_vars, analyzer_vars, cli_vars, resolve_vars, build_calls, traversals, schema_root>>

\* yangson_extractor.py 170-191, the result kept as in
\* TrueSchemaDrivenAnalyzer.initialize_schema_analysis (line 65)
ExtractAllLeafrefs ==
    /\ pc = "built"
    /\ true_leafrefs' = extract_all_leafrefs(schema_root)
    /\ pc' = "extracted"
    /\ UNCHANGED <<diff_vars, ident_vars, initialized, schema_changes, true_dependencies, cli_vars, resolve_vars, cache_vars>>

NextBuild == BuildReferenceMap \/ ExtractAllLeafrefs

SpecBuild == InitBuild /\ [][NextBuild]_vars

---------------------------------------------------------------------------
(* Properties of the build *)

RECURSIVE ReachableFrom(_, _)
\* the nodes of a schema, each with the names of the children that lead to it
ReachableFrom(node, names) ==
    {[names |-> names, node |-> node]}
    \cup UNION {ReachableFrom(node.children[i].node, Append(names, node.children[i].name)) :
                   i \in 1..Len(node.children)}

RECURSIVE OutsideFrom(_, _)
\* the nodes that are in the subtree of no node that raises
OutsideFrom(node, names) ==
    IF node.raises # "none" THEN {}
    ELSE {[names |-> names, node |-> node]}
         \cup UNION {OutsideFrom(node.children[i].node, Append(names, node.children[i].name)) :
                        i \in 1..Len(node.children)}

\* the nodes whose type is read before their children cannot be enumerated
InspectedBeforeFailure(root) == {n \in ReachableFrom(root, <<>>) : n.node.raises = "children"}

References(nodes) == {n \in nodes : n.node.type = "leafref"}

EdgeAt(n) == [source_path |-> Join(n.names, "/"), target_path |-> n.node.path]

RECURSIVE Flatten(_)
Flatten(lists) == IF lists = <<>> THEN <<>> ELSE Head(lists) \o Flatten(Tail(lists))

\* the edges of a reference map, and the leafrefs, as (source, target)
EdgesOf(records) ==
    [i \in 1..Len(records) |->
        [source_path |-> records[i].source_path, target_path |-> records[i].target_path]]

BuiltEdges == EdgesOf(Flatten(Get(_reference_cache, SchemaId).items))
ExtractedEdges == EdgesOf(true_leafrefs)

Occurrences(edge, edges) == Cardinality({i \in 1..Len(edges) : edges[i] = edge})

NoFailure(root) == \A n \in ReachableFrom(root, <<>>) : n.node.raises = "none"

\* every entry of the map is kept under its own source path
KeyedBySource ==
    LET reference_map == Get(_reference_cache, SchemaId)
    IN  \A k \in 1..Len(reference_map.keys) :
           \A e \in SeqSet(reference_map.items[k]) : e.source_path = reference_map.keys[k]

\* C23: on a schema none of whose nodes raises, the reference map and the
\* extracted leafrefs hold exactly one edge for every node of leafref type
\* reachable from the root, nodes under a node of leafref type included; its
\* source path is the names of the children from the root joined by "/", its
\* target the path the type declares.
C23_OneEdgePerReference ==
    (pc = "extracted" /\ NoFailure(schema_root)) =>
        LET references == References(ReachableFrom(schema_root, <<>>))
        IN  /\ KeyedBySource
            /\ \A edges \in {BuiltEdges, ExtractedEdges} :
                  /\ \A n \in references : Occurrences(EdgeAt(n), edges) = 1
                  /\ Len(edges) = Cardinality(references)

\* a leaf of leafref type under a node of leafref type: both are recorded
C23_Witness ==
    /\ pc = "extracted"
    /\ NoFailure(schema_root)
    /\ schema_root.children[1].node.type = "leafref"
    /\ schema_root.children[1].node.children[1].node.type = "leafref"
    /\ \A edges \in {BuiltEdges, ExtractedEdges} :
          /\ Occurrences([source_path |-> "interface",
                          target_path |-> "/acl/acl-sets/acl-set/name"], edges) = 1
          /\ Occurrences([source_path |-> "interface/name",
                          target_path |-> "../config/name"], edges) = 1

\* C24: when reading the type of a node or enumerating its children raises,
\* the build still ends with a map in the cache and a list of leafrefs; every
\* node of leafref type outside the subtrees of the raising nodes, later
\* siblings included, has its edge exactly once, and any other edge present
\* is that of a raising node whose type was read before its children could
\* not be enumerated.
C24_ErrorsIsolated ==
    pc = "extracted" =>
        LET outside == References(OutsideFrom(schema_root, <<>>))
            inspected == References(InspectedBeforeFailure(schema_root))
        IN  /\ cache_hit(_reference_cache, SchemaId)
            /\ \A edges \in {BuiltEdges, ExtractedEdges} :
                  /\ \A n \in outside : Occurrences(EdgeAt(n), edges) = 1
                  /\ \A e \in SeqSet(edges) : \E n \in outside \cup inspected : e = EdgeAt(n)

\* the first subtree cannot be read and holds a leafref leaf; the leafref
\* leaf of its later sibling is recorded, that of the skipped subtree is not
C24_Witness ==
    /\ pc = "extracted"
    /\ schema_root.children[1].node.raises = "type"
    /\ schema_root.children[1].node.children[1].node = Leaf("leafref", "../config/name")
    /\ schema_root.children[2].node.raises = "none"
    /\ \A edges \in {BuiltEdges, ExtractedEdges} :
          /\ Occurrences([source_path |-> "acl/name", target_path |-> "../config/name"], edges) = 1
          /\ Occurrences([source_path |-> "interface/name", target_path |-> "../config/name"], edges) = 0

---------------------------------------------------------------------------
(* Properties of the added records of the diff *)

RECURSIVE AddedRoots(_, _, _)
\* the keys the diff finds missing on the current side, each with the value
\* proposed holds there: keys of a mapping compared with a mapping, elements
\* of a list compared element by element with a list
AddedRoots(cur, prop, path) ==
    IF Shape(cur) = "mapping" /\ Shape(prop) = "mapping"
    THEN UNION {IF HasKey(cur, k)
                THEN AddedRoots(Get(cur, k), Get(prop, k), path \o "/" \o k)
                ELSE {[path |-> path \o "/" \o k, subtree |-> Get(prop, k)]}
                : k \in KeySet(prop)}
    ELSE IF Shape(cur) = "list" /\ Shape(prop) = "list" /\ ElementWise(prop)
    THEN UNION {IF k \in ElemKeys(cur)
                THEN AddedRoots(LastWith(cur, k), LastWith(prop, k), path \o "[" \o k \o "]")
                ELSE {[path |-> path \o "[" \o k \o "]", subtree |-> LastWith(prop, k)]}
                : k \in ElemKeys(prop)}
    ELSE {}

\* the same from the top: the sections outside the skipped metadata
AddedRootsTop(cur, prop) ==
    UNION {IF HasKey(cur, k) THEN AddedRoots(Get(cur, k), Get(prop, k), k)
           ELSE {[path |-> k, subtree |-> Get(prop, k)]}
           : k \in KeySet(prop) \ metadata_sections}

\* path p lies below path q
Below(p, q) ==
    /\ Len(p) > Len(q)
    /\ SubSeq(p, 1, Len(q)) = q
    /\ SubSeq(p, Len(q) + 1, Len(q) + 1) \in {"/", "["}

AddedRecords == {i \in 1..Len(changes) : changes[i].change_type = "added"}

\* C25: an added subtree is reported once, at its root: every key the diff
\* finds missing on the current side (a top-level section, a key of a nested
\* mapping, an element of a list) has exactly one added record at its path,
\* with no old value and with the whole proposed subtree as new value; there
\* is no other added record, and no record of any kind lies below the path
\* of an added record.
C25_AddedOnceAtRoot ==
    pc = "done" =>
        /\ \A r \in AddedRootsTop(current_config, proposed_config) :
              Cardinality({i \in AddedRecords : changes[i].path = r.path}) = 1
        /\ \A i \in AddedRecords :
              /\ changes[i].old_value = NoneV
              /\ [path |-> changes[i].path, subtree |-> changes[i].new_value]
                    \in AddedRootsTop(current_config, proposed_config)
              /\ \A j \in 1..Len(changes) : ~Below(changes[j].path, changes[i].path)

\* current {} and proposed {vlans: {10: {name: PROD}}}: one record, at vlans
C25_Witness ==
    /\ pc = "done"
    /\ current_config = DictV(<<>>, <<>>)
    /\ proposed_config = DictV(<<"vlans">>, <<Vlan10>>)
    /\ changes = <<ConfigChange("vlans", "added", NoneV, Vlan10)>>

\* an element added to a list, with a mapping of its own below it
C25_AddedElement ==
    /\ pc = "done"
    /\ \E i \in AddedRecords :
          /\ changes[i].path = "acl[y]"
          /\ changes[i].new_value = E_y

---------------------------------------------------------------------------
(* The scenario run: analyze on a device whose interface eth1 applies no   *)
(* access list and a proposed configuration in which it applies            *)
(* USER_INBOUND_V4, the access list itself the same on both sides          *)

SameAcl == AclSets(<<AclSet("USER_INBOUND_V4", "USER_INBOUND_V4", "in")>>)

ScenarioCurrentPool ==
    {DictV(<<"acl-sets", "openconfig-interfaces:interfaces">>, <<SameAcl, Interfaces(interfaces)>>) :
        interfaces \in {<<Interface("eth1", "up")>>,
                        <<Interface("eth1", "up"), Interface("eth2", "up")>>,
                        <<Interface("eth1", "up"),
                          InterfaceWithAcl("eth2", "up", "USER_INBOUND_V4")>>}}

\* what the proposed configuration says of the interfaces other than eth1
ScenarioProposedOf(current) ==
    LET interfaces == Get(Get(current, "openconfig-interfaces:interfaces"), "interface").items
        proposed == [i \in 1..Len(interfaces) |->
                        IF i = 1 THEN InterfaceWithAcl("eth1", "up", "USER_INBOUND_V4")
                        ELSE interfaces[i]]
    IN  {DictV(<<"acl-sets", "openconfig-interfaces:interfaces">>,
               <<SameAcl, Interfaces(proposed)>>),
         DictV(<<"acl-sets", "openconfig-interfaces:interfaces">>,
               <<SameAcl, Interfaces(<<proposed[1]>>)>>)}

InitScenario ==
    /\ pc = "start"
    /\ current_config \in ScenarioCurrentPool
    /\ proposed_config \in ScenarioProposedOf(current_config)
    /\ changes = <<>>
    /\ IdentIdle /\ AnalyzerIdle /\ CliIdle /\ ResolveIdle /\ CacheIdle

SpecScenario == InitScenario /\ [][NextAnalyze]_vars

---------------------------------------------------------------------------
(* Properties of the scenario *)

InterfaceToAclEdge ==
    Leafref("acl/interfaces/interface/ingress-acl-sets/ingress-acl-set/set-name",
            "../../../../../acl-sets/acl-set/config/name", "acl set")

\* the analysis has ended with the interface-to-ACL edge as its index
ScenarioAnalysed ==
    /\ pc = "done"
    /\ schema_result = "success"
    /\ true_leafrefs = <<InterfaceToAclEdge>>

C26_UnresolvedTarget ==
    ScenarioAnalysed =>
        /\ Len(dependencies) = 1
        /\ dependencies[1].source_value = "eth1"
        /\ dependencies[1].display_source = "eth1"
        /\ dependencies[1].display_target = InterfaceToAclEdge.target_path

---------------------------------------------------------------------------
(* Properties of the dependencies of the groups *)

DedupKey(dep) == <<dep.target_path, dep.source_value>>

\* the dependency, or an entry with its deduplication key, is in the group
CollectedIn(group, dep) ==
    \E j \in 1..Len(group.dependencies) :
       \/ group.dependencies[j] = dep
       \/ DedupKey(group.dependencies[j]) = DedupKey(dep)

\* the dependency records whose path is the path of a change
OnChangedPath == {d \in 1..Len(dependencies) :
                     \E c \in 1..Len(changes) : dependencies[d].source_path = changes[c].path}

\* C27: no dependency is lost by grouping: a path relates to itself, by its
\* bracketed identifier when it has one and by the positional comparison
\* when it has none, so every dependency record whose change path is the path
\* of a change is in the dependencies of that change's group, itself or an
\* entry with the same deduplication key.
C27_NoDependencyLost ==
    pc = "done" =>
        /\ \A c \in 1..Len(changes) :
              _path_relates_to_change(changes[c].path, changes[c].path)
        /\ \A d \in 1..Len(dependencies), c \in 1..Len(changes) :
              dependencies[d].source_path = changes[c].path
                 => CollectedIn(GroupOf(LabelOf(changes[c].path)), dependencies[d])

\* a schema dependency of a change without bracketed identifier, and the
\* entry of a change with one, both on the paths of their changes
C27_Witness ==
    /\ pc = "done"
    /\ \E d \in OnChangedPath :
          /\ dependencies[d].dependency_type = "schema_leafref"
          /\ _extract_config_object_identifier(dependencies[d].source_path) = ""
    /\ \E d \in OnChangedPath :
          _extract_config_object_identifier(dependencies[d].source_path) # ""

---------------------------------------------------------------------------
(* Properties of the change types of the diff *)

\* the paths of the keys and list elements, at any depth, that current
\* holds and proposed does not
OnlyInCurrent == AbsentTopLevel(proposed_config, current_config)

\* C28: the diff never produces a deleted record: every record of
\* compare_configs is added or modified, and a mapping key or list element
\* that only current holds, at any depth, has no record at its path.
C28_NeverDeleted ==
    pc = "done" =>
        /\ \A i \in 1..Len(changes) : changes[i].change_type \in {"added", "modified"}
        /\ \A i \in 1..Len(changes) : changes[i].path \notin OnlyInCurrent

\* current holds the section vlans and the key acl/a that proposed lacks;
\* the only record is the modification of acl/c
C28_Witness ==
    /\ pc = "done"
    /\ current_config = DictV(<<"acl", "vlans">>, <<D2, D1>>)
    /\ proposed_config = DictV(<<"acl">>, <<D1>>)
    /\ {"vlans", "acl/a"} \subseteq OnlyInCurrent
    /\ changes = <<ConfigChange("acl/c", "modified", Sy, Sx)>>

\* a list element that only current holds, next to a changed element
C28_ElementOnlyInCurrent ==
    /\ pc = "done"
    /\ "acl[y]" \in OnlyInCurrent
    /\ changes # <<>>

---------------------------------------------------------------------------
(* Properties of the paths of the records *)

\* C29: the paths of the records of one diff are pairwise different, also
\* when several elements of a proposed list have the same key-field value
\* and when the position of an element without key field reads like the key
\* of another element.
C29_UniquePaths ==
    pc = "done" =>
        \A i, j \in 1..Len(changes) : changes[i].path = changes[j].path => i = j

\* the proposed list holds an element without key field at position 0 and
\* an element named 0: one record at acl[0]
C29_Witness ==
    /\ pc = "done"
    /\ current_config = DictV(<<"acl">>, <<ListV(<<E_x>>)>>)
    /\ proposed_config = DictV(<<"acl">>, <<ListV(<<E_nokey, E_0>>)>>)
    /\ changes = <<ConfigChange("acl[0]", "added", NoneV, E_0)>>

\* two proposed elements named x, the current list holding one: the records
\* are those of the last of them
C29_SharedKey ==
    /\ pc = "done"
    /\ current_config = DictV(<<"acl">>, <<ListV(<<E_x>>)>>)
    /\ proposed_config = DictV(<<"acl">>, <<ListV(<<E_x, E_xv>>)>>)
    /\ changes = <<ConfigChange("acl[x]/v", "added", NoneV, Sy)>>

---------------------------------------------------------------------------
(* The two diffs: compare_configs and analyze_configuration_changes run on *)
(* the same pair of trees, as analyze does (cli/main.py 369 and 388). The  *)
(* trees are nested mappings of scalars; a few hold a list or a null       *)

ScalarPool == {Sx, Sy}
InnerKeySeqs == {<<>>, <<"a">>, <<"b">>, <<"a", "b">>, <<"b", "a">>}
InnerPool == UNION {{DictV(ks, vs) : vs \in [1..Len(ks) -> ScalarPool]} : ks \in InnerKeySeqs}
MiddleValues ==
    {Sx, Sy, DictV(<<>>, <<>>), DictV(<<"a">>, <<Sx>>), DictV(<<"a">>, <<Sy>>),
     DictV(<<"b">>, <<Sx>>)}
MiddlePool ==
    UNION {{DictV(ks, vs) : vs \in [1..Len(ks) -> MiddleValues]} : ks \in {<<"a">>, <<"a", "b">>}}
AgreeSectionPool == {Sx, I10, NoneV, L_xy} \cup InnerPool \cup MiddlePool

AgreeInputs ==
    {<<DictV(<<"acl">>, <<a>>), DictV(<<"acl">>, <<b>>)>> : a, b \in AgreeSectionPool}
    \cup {<<DictV(<<>>, <<>>), DictV(<<"acl", "vlans">>, <<b, D2>>)>> : b \in AgreeSectionPool}
    \cup {<<DictV(<<"vlans", "acl">>, <<a, D1>>), DictV(<<"acl", "vlans">>, <<D2, b>>)>> :
             a, b \in InnerPool \cup {Sx}}
    \cup {<<DictV(<<"device", "acl">>, <<Sx, a>>), DictV(<<"device", "acl">>, <<Sy, D2>>)>> :
             a \in InnerPool}

InitAgree ==
    /\ pc = "start"
    /\ \E input \in AgreeInputs :
          current_config = input[1] /\ proposed_config = input[2]
    /\ changes = <<>>
    /\ IdentIdle /\ AnalyzerIdle /\ CliIdle /\ ResolveIdle /\ CacheIdle

\* true_schema_analyzer.py 105-151, called by analyze_configuration_file on
\* the configurations analyze has dumped
AnalyzeConfigurationChanges ==
    /\ pc = "diffed"
    /\ schema_changes' = analyze_configuration_changes(current_config, proposed_config)
    /\ pc' = "compared"
    /\ UNCHANGED <<diff_vars, ident_vars, initialized, true_leafrefs, true_dependencies, cli_vars, resolve_vars, cache_vars>>

NextAgree == DiffConfigs \/ AnalyzeConfigurationChanges

SpecAgree == InitAgree /\ [][NextAgree]_vars

---------------------------------------------------------------------------
(* Properties of the two diffs *)

RECURSIVE ListFree(_)
\* nested mappings and scalars that are not null
ListFree(x) ==
    IF Shape(x) = "mapping" THEN \A i \in 1..Len(x.items) : ListFree(x.items[i])
    ELSE x.t \in {"str", "int"}

RECURSIVE MappingOverScalar(_, _)
\* some path holds a mapping in prop and a scalar in cur
MappingOverScalar(cur, prop) ==
    /\ Shape(prop) = "mapping"
    /\ \/ Shape(cur) # "mapping"
       \/ \E k \in KeySet(prop) \cap KeySet(cur) : MappingOverScalar(Get(cur, k), Get(prop, k))

Comparable(cur, prop) ==
    /\ ListFree(cur) /\ ListFree(prop)
    /\ "device" \notin KeySet(cur) \cup KeySet(prop)
    /\ ~MappingOverScalar(cur, prop)

\* a record as (path, change_type, old_value, new_value)
AsTuples(records) ==
    [i \in 1..Len(records) |->
        <<records[i].path, records[i].change_type, records[i].old_value, records[i].new_value>>]

\* C30: on trees of nested mappings and non-null scalars, without top-level
\* device key and without a path that holds a mapping in proposed and a
\* scalar in current, analyze_configuration_changes and compare_configs
\* return the same sequence of (path, change_type, old_value, new_value).
C30_DiffsAgree ==
    (pc = "compared" /\ Comparable(current_config, proposed_config)) =>
        AsTuples(schema_changes) = AsTuples(changes)

\* a nested key added, a nested value modified and a mapping replaced by a
\* scalar, reported alike by both
C30_Witness ==
    /\ pc = "compared"
    /\ Comparable(current_config, proposed_config)
    /\ current_config = DictV(<<"acl">>, <<DictV(<<"a", "b">>, <<DictV(<<"a">>, <<Sx>>), DictV(<<"b">>, <<Sx>>)>>)>>)
    /\ proposed_config = DictV(<<"acl">>, <<DictV(<<"a", "b">>, <<DictV(<<"a">>, <<Sy>>), Sy>>)>>)
    /\ AsTuples(changes) = <<<<"acl/a/a", "modified", Sx, Sy>>,
                             <<"acl/b", "modified", DictV(<<"b">>, <<Sx>>), Sy>>>>
    /\ AsTuples(schema_changes) = AsTuples(changes)

\* outside the trees of the claim the two differ: a mapping over a scalar
C30_DifferOutside ==
    /\ pc = "compared"
    /\ MappingOverScalar(current_config, proposed_config)
    /\ AsTuples(schema_changes) # AsTuples(changes)

====
